---- MODULE Spec2Model ----
(***************************************************************************)
(* A model of library/dependency-track.py: one reconciliation pass of the  *)
(* Ansible module against a Dependency-Track server.  The module's         *)
(* functions are operators over a context record (the server's state, the  *)
(* write calls issued so far, the pass's aborted flag); the driver         *)
(* run_module is a state machine with one action per function it calls.   *)
(* Two smaller machines stand beside it: add_children_to_project_tree run  *)
(* call by call, and create_teams of two passes run against one server.    *)
(***************************************************************************)
EXTENDS Integers, Sequences, FiniteSets, TLC

VARIABLES
    remote,   \* the server: groups, teams, projects, mappings, permissions, ACL
    params,   \* module.params: the desired state handed to the pass
    failAt,   \* indices of the write calls of a pass that the server refuses
    readFail, \* the read call of a pass that the server fails to answer
    pass,     \* run_module's position and locals
    log,      \* the write calls issued by the current pass, in order
    reads,    \* the read calls issued by the current pass, routine by routine
    hist,     \* the results of the passes already finished
    build,    \* add_children_to_project_tree run call by call
    racers    \* create_teams of two passes run at the same time

vars == <<remote, params, failAt, readFail, pass, log, reads, hist, build, racers>>

(***************************************************************************)
(* Bounds of the model                                                     *)
(***************************************************************************)
\* projects on the server before the first pass
MaxProjects == 3
\* write calls of a pass among which one may be refused by the server
FailWindow == 4

(***************************************************************************)
(* Names                                                                   *)
(***************************************************************************)
DICT_KEY_CHILDREN == "children"
DICT_KEY_ID == "id"

\* manage_permissions' list of the ten permission kinds, in its order
PERMISSIONS ==
    << "ACCESS_MANAGEMENT", "BOM_UPLOAD", "POLICY_MANAGEMENT",
       "POLICY_VIOLATION_ANALYSIS", "PORTFOLIO_MANAGEMENT",
       "PROJECT_CREATION_UPLOAD", "SYSTEM_CONFIGURATION", "VIEW_PORTFOLIO",
       "VIEW_VULNERABILITY", "VULNERABILITY_MANAGEMENT" >>

\* the value of an absent parent (Python's None) and of an absent identifier
None == "None"
NoId == 0

Range(s) == {s[i] : i \in DOMAIN s}

\* the empty dict
EmptyDict == [k \in {} |-> NoId]

\* d | e of two dicts: the right operand's values win
DictUnion(d, e) ==
    [k \in DOMAIN d \cup DOMAIN e |-> IF k \in DOMAIN e THEN e[k] ELSE d[k]]

\* the keys of the name -> uuid dict read from the group listing, in the
\* order of the dict: the server holds one group of a name and lists the
\* groups in order of creation (ascending identifier), so every key is
\* inserted once, at the place of its uuid
RECURSIVE KeysById(_)
KeysById(d) ==
    IF DOMAIN d = {} THEN << >>
    ELSE LET k == CHOOSE x \in DOMAIN d : \A y \in DOMAIN d : d[x] <= d[y]
         IN  <<k>> \o KeysById([y \in DOMAIN d \ {k} |-> d[y]])

(***************************************************************************)
(* The server.  Each operator is one REST call: the server's state after   *)
(* it, the status code, and the body where the module reads one.  ok is    *)
(* FALSE when the server refuses the call (an unexpected status, no        *)
(* effect).  Identifiers are assigned from remote.nextId.                  *)
(***************************************************************************)
Reply(r, status, body) == [remote |-> r, status |-> status, body |-> body]

\* PUT /api/v1/oidc/group {name}
PutOidcGroup(r, name, ok) ==
    IF ~ok THEN Reply(r, 500, NoId)
    ELSE IF name \in DOMAIN r.groups THEN Reply(r, 409, NoId)
    ELSE Reply([r EXCEPT !.groups = DictUnion(@, [k \in {name} |-> r.nextId]),
                         !.nextId = @ + 1], 201, r.nextId)

\* DELETE /api/v1/oidc/group/{uuid}: the group and its mappings go
DeleteOidcGroup(r, uuid, ok) ==
    IF ~ok THEN Reply(r, 500, NoId)
    ELSE IF ~\E g \in DOMAIN r.groups : r.groups[g] = uuid THEN Reply(r, 404, NoId)
    ELSE Reply([r EXCEPT
                 !.groups = [g \in {x \in DOMAIN @ : @[x] # uuid} |-> @[g]],
                 !.mappings = {m \in @ : m[1] # uuid}], 200, NoId)

\* PUT /api/v1/team {name}
PutTeam(r, name, ok) ==
    IF ~ok THEN Reply(r, 500, NoId)
    ELSE IF name \in DOMAIN r.teams THEN Reply(r, 409, NoId)
    ELSE Reply([r EXCEPT !.teams = DictUnion(@, [k \in {name} |-> r.nextId]),
                         !.nextId = @ + 1], 201, r.nextId)

\* DELETE /api/v1/team {uuid}: the team and what it holds go
DeleteTeam(r, uuid, ok) ==
    IF ~ok THEN Reply(r, 500, NoId)
    ELSE IF ~\E t \in DOMAIN r.teams : r.teams[t] = uuid THEN Reply(r, 404, NoId)
    ELSE Reply([r EXCEPT
                 !.teams = [t \in {x \in DOMAIN @ : @[x] # uuid} |-> @[t]],
                 !.mappings = {m \in @ : m[2] # uuid},
                 !.perms = {p \in @ : p[1] # uuid},
                 !.acl = {a \in @ : a[1] # uuid}], 200, NoId)

\* PUT /api/v1/project {name, parent: None or {uuid}}; the body read is
\* the new project's name and uuid
PutProject(r, name, parent, ok) ==
    IF ~ok THEN Reply(r, 500, NoId)
    ELSE IF \E p \in DOMAIN r.projects : r.projects[p].name = name
         THEN Reply(r, 409, NoId)
    ELSE IF parent # NoId /\ parent \notin DOMAIN r.projects
         THEN Reply(r, 404, NoId)
    ELSE Reply([r EXCEPT
                 !.projects = DictUnion(@, [k \in {r.nextId} |->
                                  [name |-> name, parent |-> parent]]),
                 !.nextId = @ + 1], 201, r.nextId)

\* DELETE /api/v1/project/{uuid}: refused by the server's own constraint
\* while the project has children
DeleteProject(r, uuid, ok) ==
    IF ~ok THEN Reply(r, 500, NoId)
    ELSE IF uuid \notin DOMAIN r.projects THEN Reply(r, 404, NoId)
    ELSE IF \E c \in DOMAIN r.projects : r.projects[c].parent = uuid
         THEN Reply(r, 400, NoId)
    ELSE Reply([r EXCEPT
                 !.projects = [p \in DOMAIN @ \ {uuid} |-> @[p]],
                 !.acl = {a \in @ : a[2] # uuid}], 204, NoId)

\* PUT /api/v1/oidc/mapping {group, team}
PutMapping(r, group, team, ok) ==
    IF ~ok THEN Reply(r, 500, NoId)
    ELSE IF <<group, team>> \in r.mappings THEN Reply(r, 409, NoId)
    ELSE Reply([r EXCEPT !.mappings = @ \cup {<<group, team>>}], 200, NoId)

\* DELETE /api/v1/oidc/mapping/{groupId}: the call names a group and no
\* team; what is mapped to that group goes
DeleteMapping(r, group, ok) ==
    IF ~ok THEN Reply(r, 500, NoId)
    ELSE IF ~\E m \in r.mappings : m[1] = group THEN Reply(r, 404, NoId)
    ELSE Reply([r EXCEPT !.mappings = {m \in @ : m[1] # group}], 200, NoId)

\* POST /api/v1/permission/{permission}/team/{uuid}
PostPermission(r, permission, team, ok) ==
    IF ~ok THEN Reply(r, 500, NoId)
    ELSE IF <<team, permission>> \in r.perms THEN Reply(r, 304, NoId)
    ELSE Reply([r EXCEPT !.perms = @ \cup {<<team, permission>>}], 200, NoId)

\* PUT /api/v1/acl/mapping {team, project}
PutAcl(r, team, project, ok) ==
    IF ~ok THEN Reply(r, 500, NoId)
    ELSE IF <<team, project>> \in r.acl THEN Reply(r, 409, NoId)
    ELSE Reply([r EXCEPT !.acl = @ \cup {<<team, project>>}], 200, NoId)

\* DELETE /api/v1/acl/mapping/team/{uuid}/project/{uuid}
DeleteAcl(r, team, project, ok) ==
    IF ~ok THEN Reply(r, 500, NoId)
    ELSE IF <<team, project>> \notin r.acl THEN Reply(r, 404, NoId)
    ELSE Reply([r EXCEPT !.acl = @ \ {<<team, project>>}], 200, NoId)

\* POST /api/v1/configProperty/aggregate [acl.enabled = true]
PostAclEnabled(r, ok) ==
    IF ~ok THEN Reply(r, 500, NoId)
    ELSE Reply([r EXCEPT !.aclEnabled = TRUE], 200, NoId)

(***************************************************************************)
(* A pass's context: the server, the write calls issued, the changed flag  *)
(* of the running function, and whether the pass died of an exception.     *)
(***************************************************************************)
Begin(r, lg) == [remote |-> r, log |-> lg, changed |-> FALSE, failed |-> FALSE]

\* whether the server accepts the next write call of the pass
Ok(c) == (Len(c.log) + 1) \notin failAt

\* a write call as logged: method, path, the name it is about, the
\* identifiers in its path or payload
Req(m, path, name, id, id2) ==
    [m |-> m, path |-> path, name |-> name, id |-> id, id2 |-> id2]

\* the context after a call: the server's new state, the call and its status
\* logged, changed raised when the status is the one the caller tests for
Issue(c, req, reply, success) ==
    [c EXCEPT !.remote = reply.remote,
              !.log = Append(@, [m |-> req.m, path |-> req.path,
                                 name |-> req.name, id |-> req.id,
                                 id2 |-> req.id2, status |-> reply.status]),
              !.changed = @ \/ (success # NoId /\ reply.status = success)]

(***************************************************************************)
(* Reads.  A read call the server fails to answer carries a body that is   *)
(* no JSON ("text") or a JSON object that describes the error ("object").  *)
(* No read function looks at the status: resp.json() raises on the first,  *)
(* and on the second the list readers raise when they index a key of the   *)
(* object as a record, while get_children_of_project finds no 'children'   *)
(* in it and returns {}.                                                   *)
(***************************************************************************)
NoReadFailure == [step |-> "none", path |-> "", id |-> NoId, body |-> ""]

\* a read call: its path and the identifier in the path
Get(path, id) == [path |-> path, id |-> id]

\* what the server answers to a read call of the step the pass is in
Answer(g) ==
    IF readFail.step = pass.pc /\ readFail.path = g.path /\ readFail.id = g.id
    THEN readFail.body
    ELSE "ok"

\* the read call ends in an exception
Raising(g) ==
    /\ Answer(g) # "ok"
    /\ ~(g.path = "project" /\ Answer(g) = "object")

\* GET /api/v1/team as a name -> uuid dict
get_existing_teams(r) == r.teams

\* GET /api/v1/oidc/group as a name -> uuid dict
get_existing_oidc_groups(r) == r.groups

\* GET /api/v1/team, the apiKeys of the teams named in the desired state
\* (a team's keys are identified here by the team's uuid)
get_team_api_keys(r, teams) ==
    [n \in {t \in DOMAIN r.teams : \E i \in DOMAIN teams : teams[i].name = t}
       |-> r.teams[n]]

\* the uuids of the children the server holds for a project (0: the roots)
ChildrenOf(r, uuid) == {p \in DOMAIN r.projects : r.projects[p].parent = uuid}

\* the projects of a listing, each with its 'name' and 'uuid', in the order
\* the server lists them (the order of creation: ascending identifier)
RECURSIVE Items(_, _)
Items(r, ps) ==
    IF ps = {} THEN << >>
    ELSE LET p == CHOOSE x \in ps : \A y \in ps : x <= y
         IN  <<[name |-> r.projects[p].name, uuid |-> p]>> \o Items(r, ps \ {p})

\* a name -> uuid dict is the sequence of its items: a key stays at the place
\* of its first insertion, a later assignment to it replaces the value
\* name_to_id_mapping[child['name']] = child['uuid'] for each item in turn
RECURSIVE NameToId(_, _)
NameToId(items, name_to_id_mapping) ==
    IF items = << >> THEN name_to_id_mapping
    ELSE LET child == Head(items)
             held == \E i \in DOMAIN name_to_id_mapping :
                         name_to_id_mapping[i].name = child.name
         IN  NameToId(Tail(items),
                 IF held
                 THEN [i \in DOMAIN name_to_id_mapping |->
                          IF name_to_id_mapping[i].name = child.name
                          THEN child ELSE name_to_id_mapping[i]]
                 ELSE Append(name_to_id_mapping, child))

\* GET /api/v1/project/{uuid}, its children as a name -> uuid dict; {} when
\* the body has no 'children'
get_children_of_project(r, project_id) ==
    IF Answer(Get("project", project_id)) = "ok"
    THEN NameToId(Items(r, ChildrenOf(r, project_id)), << >>)
    ELSE << >>

tree == EmptyDict

\* a tree is a dict of nodes by name; each node holds, next to the keys the
\* code gives it, the place of its name among the keys of that dict (the
\* order of first insertion, which the loops over .keys() follow)
KEY_PLACE == "place"

\* a node that was given an id and nothing else: it has no key children
Leaf(uuid, place) ==
    [k \in {DICT_KEY_ID, KEY_PLACE} |-> IF k = DICT_KEY_ID THEN uuid ELSE place]

\* DICT_KEY_CHILDREN in node.keys()
HasChildren(node) == DICT_KEY_CHILDREN \in DOMAIN node

\* node[DICT_KEY_CHILDREN] of a defaultdict: an empty tree when the key is
\* not there
Children(node) == IF HasChildren(node) THEN node[DICT_KEY_CHILDREN] ELSE tree

\* the node after node[DICT_KEY_CHILDREN] was made or changed to be sub
WithChildren(node, sub) ==
    [k \in DOMAIN node \cup {DICT_KEY_CHILDREN} |->
        IF k = DICT_KEY_CHILDREN THEN sub ELSE node[k]]


\* each node of the tree with an id gets the children the server lists for
\* it, then its children are completed in turn
\* project_tree[k][children][name][id] = uuid for the children fetched: a
\* child already in the tree keeps its subtree, a new one starts as a leaf
\* (a new key comes after the keys the dict has), item by item in the order
\* of children.items()
RECURSIVE SetChildren(_, _)
SetChildren(first, children) ==
    IF children = << >> THEN first
    ELSE LET name == Head(children).name
             uuid == Head(children).uuid
             set == IF name \in DOMAIN first
                    THEN [first EXCEPT ![name][DICT_KEY_ID] = uuid]
                    ELSE first @@ (name :> Leaf(uuid, Cardinality(DOMAIN first) + 1))
         IN  SetChildren(set, Tail(children))

\* lines 610-611: the loop over the children fetched makes the key children
\* with its first turn, so no child fetched leaves the node as it is
FetchedInto(node, children) ==
    IF children = << >> THEN node
    ELSE WithChildren(node, SetChildren(Children(node), children))

\* the builder without its descent: the seed tree as it is
add_children_to_project_tree_seed_only(r, project_tree) == project_tree

RECURSIVE add_children_to_project_tree(_, _)
add_children_to_project_tree(r, project_tree) ==
    [k \in DOMAIN project_tree |->
        LET node == project_tree[k]
            first == IF HasChildren(node)
                     THEN WithChildren(node,
                              add_children_to_project_tree(r, node[DICT_KEY_CHILDREN]))
                     ELSE node
            children == get_children_of_project(r, node[DICT_KEY_ID])
            fetched == FetchedInto(first, children)
        IN  IF node[DICT_KEY_ID] = NoId THEN first
            ELSE WithChildren(fetched,
                     add_children_to_project_tree(r, Children(fetched)))]

\* lines 592-597, one listed root after the other: the node of the root's
\* name gets the root's uuid, then the children the listing embeds for this
\* root are written under that node; the roots of one name share one node,
\* which ends with the uuid of the last and the children of all of them
RECURSIVE SeedRoots(_, _, _)
SeedRoots(r, roots, project_tree) ==
    IF roots = << >> THEN project_tree
    ELSE LET project == Head(roots)
             named == SetChildren(project_tree, <<project>>)
             children == Items(r, ChildrenOf(r, project.uuid))
         IN  SeedRoots(r, Tail(roots),
                 [named EXCEPT ![project.name] = FetchedInto(@, children)])

\* the tree get_project_tree seeds from GET /api/v1/project?onlyRoot=true:
\* the roots and the first-level children the listing embeds
Seed(r) == SeedRoots(r, Items(r, ChildrenOf(r, NoId)), tree)

get_project_tree(r) == add_children_to_project_tree(r, Seed(r))

\* the keys of a (sub)tree in the order they were inserted
TreeKeys(project_tree) ==
    [i \in 1..Cardinality(DOMAIN project_tree) |->
        CHOOSE k \in DOMAIN project_tree : project_tree[k][KEY_PLACE] = i]

\* add_children_to_project_tree with the read calls it makes, in the order
\* it makes them: for each key the calls of the first descent into the
\* children, the GET of the node, the calls of the second descent
RECURSIVE AddChildrenRun(_, _)
RECURSIVE AddChildrenRunOfKeys(_, _, _)
AddChildrenRunOfKeys(r, project_tree, keys) ==
    IF keys = << >> THEN [tree |-> tree, gets |-> << >>]
    ELSE LET node == project_tree[Head(keys)]
             first == IF HasChildren(node)
                      THEN AddChildrenRun(r, node[DICT_KEY_CHILDREN])
                      ELSE [tree |-> tree, gets |-> << >>]
             descended == IF HasChildren(node)
                          THEN WithChildren(node, first.tree)
                          ELSE node
             children == get_children_of_project(r, node[DICT_KEY_ID])
             fetched == FetchedInto(descended, children)
             second == AddChildrenRun(r, Children(fetched))
             own == IF node[DICT_KEY_ID] = NoId
                    THEN [node |-> descended, gets |-> first.gets]
                    ELSE [node |-> WithChildren(fetched, second.tree),
                          gets |-> first.gets
                                   \o <<Get("project", node[DICT_KEY_ID])>>
                                   \o second.gets]
             rest == AddChildrenRunOfKeys(r, project_tree, Tail(keys))
         IN  [tree |-> [k \in {Head(keys)} \cup DOMAIN rest.tree |->
                           IF k = Head(keys) THEN own.node ELSE rest.tree[k]],
              gets |-> own.gets \o rest.gets]

AddChildrenRun(r, project_tree) ==
    AddChildrenRunOfKeys(r, project_tree, TreeKeys(project_tree))

AddChildrenReads(r, project_tree) == AddChildrenRun(r, project_tree).gets

\* the read calls of get_project_tree
ProjectTreeReads(r) ==
    <<Get("project?onlyRoot=true", NoId)>> \o AddChildrenReads(r, Seed(r))

RECURSIVE flatten_project_tree(_)
RECURSIVE FlattenKeys(_, _, _)
FlattenKeys(project_tree, keys, flatten) ==
    IF keys = << >> THEN flatten
    ELSE LET key == Head(keys)
             own == DictUnion(flatten,
                        [k \in {key} |-> project_tree[key][DICT_KEY_ID]])
             child_flatten ==
                 flatten_project_tree(Children(project_tree[key]))
         IN  FlattenKeys(project_tree, Tail(keys), DictUnion(own, child_flatten))

\* the tree as one name -> uuid dict
flatten_project_tree(project_tree) ==
    FlattenKeys(project_tree, TreeKeys(project_tree), EmptyDict)

(***************************************************************************)
(* Access scope                                                            *)
(***************************************************************************)
RECURSIVE verify_access_control_in_project_tree(_, _)
RECURSIVE VerifyKeys(_, _, _, _)
VerifyKeys(project_tree, keys, project_name, access_allowed) ==
    IF keys = << >> THEN access_allowed
    ELSE LET key == Head(keys)
         IN  IF project_name = key
             THEN VerifyKeys(project_tree, Tail(keys), project_name, TRUE)
             ELSE VerifyKeys(project_tree, Tail(keys), project_name,
                      access_allowed \/ verify_access_control_in_project_tree(
                          Children(project_tree[key]), project_name))

verify_access_control_in_project_tree(project_tree, project_name) ==
    VerifyKeys(project_tree, TreeKeys(project_tree), project_name, FALSE)

\* the two tests in the other order: the root is allowed before it is looked up
access_to_project_allowed_root_first(project_tree, team_name, project_name) ==
    IF team_name = project_name THEN TRUE
    ELSE IF team_name \notin DOMAIN project_tree THEN FALSE
    ELSE verify_access_control_in_project_tree(
             Children(project_tree[team_name]), project_name)

access_to_project_allowed(project_tree, team_name, project_name) ==
    IF team_name \notin DOMAIN project_tree THEN FALSE
    ELSE IF team_name = project_name THEN TRUE
    ELSE verify_access_control_in_project_tree(
             Children(project_tree[team_name]), project_name)

filter_project_list(existing_project_tree, team_name, projects) ==
    SelectSeq(projects,
        LAMBDA project :
            access_to_project_allowed(existing_project_tree, team_name, project))

(***************************************************************************)
(* The reconciliation routines.  Each takes the context it starts from and *)
(* returns the context it ends in, changed being its return value.         *)
(***************************************************************************)
RECURSIVE CreateOidcGroupsLoop(_, _, _)
CreateOidcGroupsLoop(c, oidc_groups, i) ==
    IF i > Len(oidc_groups) THEN c
    ELSE LET group == oidc_groups[i]
             resp == PutOidcGroup(c.remote, group, Ok(c))
         IN  CreateOidcGroupsLoop(
                 Issue(c, Req("PUT", "oidc/group", group, NoId, NoId), resp, 201),
                 oidc_groups, i + 1)

create_oidc_groups(c, oidc_groups) == CreateOidcGroupsLoop(c, oidc_groups, 1)

RECURSIVE DeleteOidcGroupsLoop(_, _, _, _)
DeleteOidcGroupsLoop(c, existing_oidc_groups, oidc_groups, i) ==
    IF i > Len(oidc_groups) THEN c
    ELSE LET group == oidc_groups[i]
         IN  IF group \notin DOMAIN existing_oidc_groups
             THEN DeleteOidcGroupsLoop(c, existing_oidc_groups, oidc_groups, i + 1)
             ELSE LET uuid == existing_oidc_groups[group]
                      resp == DeleteOidcGroup(c.remote, uuid, Ok(c))
                  IN  DeleteOidcGroupsLoop(
                          Issue(c, Req("DELETE", "oidc/group", group, uuid, NoId),
                                resp, 200),
                          existing_oidc_groups, oidc_groups, i + 1)

delete_oidc_groups(c, oidc_groups) ==
    DeleteOidcGroupsLoop(c, get_existing_oidc_groups(c.remote), oidc_groups, 1)

\* existing_teams is the list of names, grown by each team created
RECURSIVE CreateTeamsLoop(_, _, _, _)
CreateTeamsLoop(c, existing_teams, teams, i) ==
    IF i > Len(teams) THEN c
    ELSE LET team_name == teams[i].name
         IN  IF team_name \in existing_teams
             THEN CreateTeamsLoop(c, existing_teams, teams, i + 1)
             ELSE LET resp == PutTeam(c.remote, team_name, Ok(c))
                  IN  CreateTeamsLoop(
                          Issue(c, Req("PUT", "team", team_name, NoId, NoId),
                                resp, 201),
                          IF resp.status = 201
                          THEN existing_teams \cup {team_name}
                          ELSE existing_teams,
                          teams, i + 1)

\* create_teams without the listing: no team is taken as existing
create_teams_unlisted(c, teams) == CreateTeamsLoop(c, {}, teams, 1)

create_teams(c, teams) ==
    CreateTeamsLoop(c, DOMAIN get_existing_teams(c.remote), teams, 1)

RECURSIVE DeleteTeamsLoop(_, _, _, _)
DeleteTeamsLoop(c, existing_teams, teams, i) ==
    IF i > Len(teams) THEN c
    ELSE LET team_name == teams[i].name
         IN  IF team_name \notin DOMAIN existing_teams
             THEN DeleteTeamsLoop(c, existing_teams, teams, i + 1)
             ELSE LET uuid == existing_teams[team_name]
                      resp == DeleteTeam(c.remote, uuid, Ok(c))
                  IN  DeleteTeamsLoop(
                          Issue(c, Req("DELETE", "team", team_name, uuid, NoId),
                                resp, 200),
                          existing_teams, teams, i + 1)

\* the loop without its test: a delete for every desired team, listed or not
RECURSIVE DeleteTeamsUnguarded(_, _, _, _)
DeleteTeamsUnguarded(c, existing_teams, teams, i) ==
    IF i > Len(teams) THEN c
    ELSE LET team_name == teams[i].name
             uuid == IF team_name \in DOMAIN existing_teams
                     THEN existing_teams[team_name] ELSE NoId
         IN  DeleteTeamsUnguarded(
                 Issue(c, Req("DELETE", "team", team_name, uuid, NoId),
                       DeleteTeam(c.remote, uuid, Ok(c)), 200),
                 existing_teams, teams, i + 1)

delete_teams_unguarded(c, teams) ==
    DeleteTeamsUnguarded(c, get_existing_teams(c.remote), teams, 1)

delete_teams(c, teams) ==
    DeleteTeamsLoop(c, get_existing_teams(c.remote), teams, 1)

\* existing_project_tree is the flattened tree, grown by each project created
RECURSIVE CreateProjectsLoop(_, _, _, _)
CreateProjectsLoop(c, existing_project_tree, projects, i) ==
    IF i > Len(projects) THEN c
    ELSE LET project == projects[i]
         IN  IF \/ project.name \in DOMAIN existing_project_tree
                \/ /\ project.parent # None
                   /\ project.parent \notin DOMAIN existing_project_tree
             THEN CreateProjectsLoop(c, existing_project_tree, projects, i + 1)
             ELSE LET parent == IF project.parent # None
                                THEN existing_project_tree[project.parent]
                                ELSE NoId
                      resp == PutProject(c.remote, project.name, parent, Ok(c))
                  IN  CreateProjectsLoop(
                          Issue(c, Req("PUT", "project", project.name, parent, NoId),
                                resp, 201),
                          IF resp.status = 201
                          THEN DictUnion(existing_project_tree,
                                         [k \in {project.name} |-> resp.body])
                          ELSE existing_project_tree,
                          projects, i + 1)

\* create_projects followed by a second turn for the projects passed over
create_projects_retrying(c, projects) ==
    LET once == CreateProjectsLoop(
                    c, flatten_project_tree(get_project_tree(c.remote)),
                    projects, 1)
    IN  CreateProjectsLoop(
            once, flatten_project_tree(get_project_tree(once.remote)),
            projects, 1)

create_projects(c, projects) ==
    CreateProjectsLoop(c, flatten_project_tree(get_project_tree(c.remote)),
                       projects, 1)

RECURSIVE DeleteProjectsLoop(_, _, _, _)
DeleteProjectsLoop(c, existing_project_tree, projects, i) ==
    IF i > Len(projects) THEN c
    ELSE LET name == projects[i].name
         IN  IF name \notin DOMAIN existing_project_tree
             THEN DeleteProjectsLoop(c, existing_project_tree, projects, i + 1)
             ELSE LET uuid == existing_project_tree[name]
                      resp == DeleteProject(c.remote, uuid, Ok(c))
                  IN  DeleteProjectsLoop(
                          Issue(c, Req("DELETE", "project", name, uuid, NoId),
                                resp, NoId),
                          existing_project_tree, projects, i + 1)

\* the status of a project delete is not read: the function returns False
delete_projects(c, projects) ==
    DeleteProjectsLoop(c, flatten_project_tree(get_project_tree(c.remote)),
                       projects, 1)

RECURSIVE ManageOidcGroupsLoop(_, _, _, _, _)
ManageOidcGroupsLoop(c, existing_oidc_groups, keys, team_uuid, team_oidc_groups) ==
    IF keys = << >> THEN c
    ELSE LET existing_group_name == Head(keys)
             existing_group_uuid == existing_oidc_groups[existing_group_name]
         IN  IF existing_group_name \in Range(team_oidc_groups)
             THEN ManageOidcGroupsLoop(
                      Issue(c, Req("PUT", "oidc/mapping", existing_group_name,
                                   existing_group_uuid, team_uuid),
                            PutMapping(c.remote, existing_group_uuid, team_uuid, Ok(c)),
                            200),
                      existing_oidc_groups, Tail(keys), team_uuid, team_oidc_groups)
             ELSE ManageOidcGroupsLoop(
                      Issue(c, Req("DELETE", "oidc/mapping", existing_group_name,
                                   existing_group_uuid, NoId),
                            DeleteMapping(c.remote, existing_group_uuid, Ok(c)),
                            200),
                      existing_oidc_groups, Tail(keys), team_uuid, team_oidc_groups)

\* the loop over the desired groups that exist instead of over every group
manage_oidc_groups_desired_only(c, team_uuid, team_oidc_groups) ==
    LET existing_oidc_groups == get_existing_oidc_groups(c.remote)
        wanted == [g \in DOMAIN existing_oidc_groups \cap Range(team_oidc_groups)
                     |-> existing_oidc_groups[g]]
    IN  ManageOidcGroupsLoop(c, wanted, KeysById(wanted), team_uuid, team_oidc_groups)

manage_oidc_groups(c, team_uuid, team_oidc_groups) ==
    LET existing_oidc_groups == get_existing_oidc_groups(c.remote)
    IN  ManageOidcGroupsLoop(c, existing_oidc_groups, KeysById(existing_oidc_groups),
                             team_uuid, team_oidc_groups)

RECURSIVE ManagePermissionsLoop(_, _, _, _)
ManagePermissionsLoop(c, team_uuid, team_permissions, i) ==
    IF i > Len(PERMISSIONS) THEN c
    ELSE LET permission == PERMISSIONS[i]
         IN  IF permission \notin Range(team_permissions)
             THEN ManagePermissionsLoop(c, team_uuid, team_permissions, i + 1)
             ELSE ManagePermissionsLoop(
                      Issue(c, Req("POST", "permission", permission, team_uuid, NoId),
                            PostPermission(c.remote, permission, team_uuid, Ok(c)),
                            200),
                      team_uuid, team_permissions, i + 1)

\* the loop over the team's list instead of over the ten kinds
RECURSIVE GrantRequested(_, _, _, _)
GrantRequested(c, team_uuid, team_permissions, i) ==
    IF i > Len(team_permissions) THEN c
    ELSE GrantRequested(
             Issue(c, Req("POST", "permission", team_permissions[i], team_uuid, NoId),
                   PostPermission(c.remote, team_permissions[i], team_uuid, Ok(c)),
                   200),
             team_uuid, team_permissions, i + 1)

manage_permissions_as_requested(c, team_uuid, team_permissions) ==
    GrantRequested(c, team_uuid, team_permissions, 1)

manage_permissions(c, team_uuid, team_permissions) ==
    ManagePermissionsLoop(c, team_uuid, team_permissions, 1)

\* the toggle behind a test of the property's value: no call when it is set
activate_portfolio_access_control_if_unset(c) ==
    IF c.remote.aclEnabled THEN c
    ELSE Issue(c, Req("POST", "configProperty", "acl.enabled", NoId, NoId),
               PostAclEnabled(c.remote, Ok(c)), 200)

\* the toggle: it returns whether the POST was answered 200
activate_portfolio_access_control(c) ==
    Issue(c, Req("POST", "configProperty", "acl.enabled", NoId, NoId),
          PostAclEnabled(c.remote, Ok(c)), 200)

\* the walk over every node of the tree: a PUT for a name of projects, a
\* DELETE (its status not read) for every other, then the node's children
RECURSIVE update_portfolio_access_control(_, _, _, _)
RECURSIVE UpdateKeys(_, _, _, _, _)

\* the walk without its else branch: a node that is not desired is passed by
RECURSIVE GrantKeys(_, _, _, _, _)
GrantKeys(c, existing_project_tree, keys, team_uuid, projects) ==
    IF keys = << >> THEN c
    ELSE LET key == Head(keys)
             uuid == existing_project_tree[key][DICT_KEY_ID]
             children == Children(existing_project_tree[key])
             own == IF key \in Range(projects)
                    THEN Issue(c, Req("PUT", "acl/mapping", key, team_uuid, uuid),
                               PutAcl(c.remote, team_uuid, uuid, Ok(c)), 200)
                    ELSE c
             child == GrantKeys(own, children, TreeKeys(children), team_uuid, projects)
         IN  GrantKeys(child, existing_project_tree, Tail(keys), team_uuid, projects)

UpdateKeys_grant_only(c, existing_project_tree, keys, team_uuid, projects) ==
    GrantKeys(c, existing_project_tree, keys, team_uuid, projects)

UpdateKeys(c, existing_project_tree, keys, team_uuid, projects) ==
    IF keys = << >> THEN c
    ELSE LET key == Head(keys)
             uuid == existing_project_tree[key][DICT_KEY_ID]
             own == IF key \in Range(projects)
                    THEN Issue(c, Req("PUT", "acl/mapping", key, team_uuid, uuid),
                               PutAcl(c.remote, team_uuid, uuid, Ok(c)), 200)
                    ELSE Issue(c, Req("DELETE", "acl/mapping", key, team_uuid, uuid),
                               DeleteAcl(c.remote, team_uuid, uuid, Ok(c)), NoId)
             child == update_portfolio_access_control(own,
                          Children(existing_project_tree[key]),
                          team_uuid, projects)
         IN  UpdateKeys(child, existing_project_tree, Tail(keys), team_uuid, projects)

\* the walk without its descent: only the keys of the tree handed in
RECURSIVE UpdateTopLevelKeys(_, _, _, _, _)
UpdateTopLevelKeys(c, existing_project_tree, keys, team_uuid, projects) ==
    IF keys = << >> THEN c
    ELSE LET key == Head(keys)
             uuid == existing_project_tree[key][DICT_KEY_ID]
             own == IF key \in Range(projects)
                    THEN Issue(c, Req("PUT", "acl/mapping", key, team_uuid, uuid),
                               PutAcl(c.remote, team_uuid, uuid, Ok(c)), 200)
                    ELSE Issue(c, Req("DELETE", "acl/mapping", key, team_uuid, uuid),
                               DeleteAcl(c.remote, team_uuid, uuid, Ok(c)), NoId)
         IN  UpdateTopLevelKeys(own, existing_project_tree, Tail(keys), team_uuid,
                                projects)

update_portfolio_access_control_top_level(c, existing_project_tree, team_uuid, projects) ==
    UpdateTopLevelKeys(c, existing_project_tree, TreeKeys(existing_project_tree),
                       team_uuid, projects)

update_portfolio_access_control(c, existing_project_tree, team_uuid, projects) ==
    UpdateKeys(c, existing_project_tree, TreeKeys(existing_project_tree),
               team_uuid, projects)

\* the requested list taken as it is, verification or not
DesiredProjects_unverified(existing_project_tree, team_portfolio_access_control) ==
    team_portfolio_access_control.projects

\* the desired project list of a team: filtered when verify.enabled
DesiredProjects(existing_project_tree, team_portfolio_access_control) ==
    IF team_portfolio_access_control.verify.enabled
    THEN filter_project_list(existing_project_tree,
                             team_portfolio_access_control.verify.root_project,
                             team_portfolio_access_control.projects)
    ELSE team_portfolio_access_control.projects

manage_portfolio_access_control(c, existing_project_tree, team_uuid, pac) ==
    update_portfolio_access_control(c, existing_project_tree, team_uuid,
                                    DesiredProjects(existing_project_tree, pac))

(***************************************************************************)
(* run_module: the driver.  pass.pc names the call the pass is about to    *)
(* make; "done" is exit_json, "failed" an uncaught exception.              *)
(***************************************************************************)
\* ret, ret_team and ret_changed name the call that returned last, the turn
\* of the loop it was made in and its return value; log[from .. Len(log)]
\* are the write calls it issued; before is the server as the pass found it
NewPass(r, again) ==
    [pc |-> "start", changed |-> FALSE, api_keys |-> EmptyDict,
     has_api_keys |-> FALSE, team |-> 1, existing_teams |-> EmptyDict,
     existing_project_tree |-> tree, group_changed |-> FALSE,
     projects |-> << >>, ret |-> "", ret_team |-> 0, ret_changed |-> FALSE,
     from |-> 1, before |-> r, again |-> again]

\* run_module without its test of check_mode
Entry_unchecked(p) ==
    IF p.state = "present" THEN "create_oidc_groups" ELSE "delete_oidc_groups"

\* run_module with the two branches of its test of state exchanged
Entry_exchanged(p) ==
    IF p.check_mode THEN "exit_json"
    ELSE IF p.state = "present" THEN "delete_oidc_groups"
    ELSE "create_oidc_groups"

\* the branch run_module takes: out at once in check mode, else the present
\* or the absent path
Entry(p) ==
    IF p.check_mode THEN "exit_json"
    ELSE IF p.state = "present" THEN "create_oidc_groups"
    ELSE "delete_oidc_groups"

\* the present path with create_projects called before create_teams
Then_projects_first(step) ==
    CASE step = "create_oidc_groups" -> "create_projects"
      [] step = "create_projects" -> "create_teams"
      [] step = "create_teams" -> "get_team_api_keys"
      [] step = "get_team_api_keys" -> "manage_group_mappings"
      [] step = "manage_oidc_groups" -> "manage_permissions"
      [] step = "manage_permissions" -> "activate_portfolio_access_control"
      [] step = "activate_portfolio_access_control" -> "manage_portfolio_access_control"
      [] step = "delete_oidc_groups" -> "delete_teams"
      [] step = "delete_teams" -> "delete_projects"
      [] step = "delete_projects" -> "exit"

\* the call that follows a call in run_module and in the body of
\* manage_group_mappings' loop
Then(step) ==
    CASE step = "create_oidc_groups" -> "create_teams"
      [] step = "create_teams" -> "create_projects"
      [] step = "create_projects" -> "get_team_api_keys"
      [] step = "get_team_api_keys" -> "manage_group_mappings"
      [] step = "manage_oidc_groups" -> "manage_permissions"
      [] step = "manage_permissions" -> "activate_portfolio_access_control"
      [] step = "activate_portfolio_access_control" -> "manage_portfolio_access_control"
      [] step = "delete_oidc_groups" -> "delete_teams"
      [] step = "delete_teams" -> "delete_projects"
      [] step = "delete_projects" -> "exit"

\* the read calls of a routine as the pass issues them: up to the first that
\* raises.  A routine reads its lists first and makes all its read calls
\* before its first write call: the calls are kept as the paths of the lists,
\* the uuids of the projects fetched, the number of write calls issued
\* before them, and whether all were answered
Raises(gets) ==
    /\ readFail.step = pass.pc
    /\ \E i \in DOMAIN gets : Raising(gets[i])
Issued(gets) ==
    LET n == IF Raises(gets)
             THEN CHOOSE i \in DOMAIN gets :
                      /\ Raising(gets[i])
                      /\ \A j \in 1 .. (i - 1) : ~Raising(gets[j])
             ELSE Len(gets)
        lists == SelectSeq(SubSeq(gets, 1, n), LAMBDA g : g.path # "project")
        projects == SelectSeq(SubSeq(gets, 1, n), LAMBDA g : g.path = "project")
    IN  IF gets = << >> THEN << >>
        ELSE <<[step |-> pass.pc, at |-> Len(log),
                lists |-> [i \in DOMAIN lists |-> lists[i].path],
                projects |-> [i \in DOMAIN projects |-> projects[i].id],
                ok |-> \/ readFail.step # pass.pc
                       \/ \A i \in 1 .. n : Answer(gets[i]) = "ok"]>>

\* a read call raised: the exception is caught nowhere and ends the pass
Aborted(gets) ==
    /\ pass' = [pass EXCEPT !.pc = "failed", !.ret = "read error",
                            !.ret_team = pass.team, !.from = Len(log) + 1]
    /\ reads' = reads \o Issued(gets)
    /\ UNCHANGED <<remote, params, failAt, readFail, log, hist, build, racers>>

\* the pass after run_module's call of ret, which made the read calls gets,
\* returned context c
Returned(ret, gets, c) ==
    IF Raises(gets) THEN Aborted(gets)
    ELSE /\ remote' = c.remote
         /\ log' = c.log
         /\ reads' = reads \o Issued(gets)
         /\ pass' = [pass EXCEPT !.pc = Then(ret), !.ret = ret,
                                 !.ret_changed = c.changed,
                                 !.from = Len(log) + 1,
                                 !.changed = @ \/ c.changed]
         /\ UNCHANGED <<params, failAt, readFail, hist, build, racers>>

\* if module.check_mode: module.exit_json(**result)
CheckModeExit ==
    /\ pass.pc = "start"
    /\ Entry(params) = "exit_json"
    /\ pass' = [pass EXCEPT !.pc = "done"]
    /\ UNCHANGED <<remote, params, failAt, readFail, log, reads, hist, build, racers>>

CreateOidcGroups ==
    /\ pass.pc = "start"
    /\ Entry(params) = "create_oidc_groups"
    /\ Returned("create_oidc_groups", << >>,
                create_oidc_groups(Begin(remote, log), params.oidc_groups))

CreateTeams ==
    /\ pass.pc = "create_teams"
    /\ Returned("create_teams", <<Get("team", NoId)>>,
                create_teams(Begin(remote, log), params.teams))

CreateProjects ==
    /\ pass.pc = "create_projects"
    /\ Returned("create_projects", ProjectTreeReads(remote),
                create_projects(Begin(remote, log), params.projects))

GetTeamApiKeys ==
    /\ pass.pc = "get_team_api_keys"
    /\ LET gets == <<Get("team", NoId)>>
       IN  IF Raises(gets) THEN Aborted(gets)
           ELSE /\ pass' = [pass EXCEPT
                              !.pc = Then("get_team_api_keys"),
                              !.ret = "get_team_api_keys",
                              !.from = Len(log) + 1,
                              !.api_keys = get_team_api_keys(remote, params.teams),
                              !.has_api_keys = TRUE]
                /\ reads' = reads \o Issued(gets)
                /\ UNCHANGED <<remote, params, failAt, readFail, log, hist, build, racers>>

\* manage_group_mappings up to its loop: the teams and the tree are read once
ManageGroupMappings ==
    /\ pass.pc = "manage_group_mappings"
    /\ LET gets == <<Get("team", NoId)>> \o ProjectTreeReads(remote)
       IN  IF Raises(gets) THEN Aborted(gets)
           ELSE /\ pass' = [pass EXCEPT
                              !.pc = IF params.teams = << >> THEN "exit"
                                     ELSE "manage_oidc_groups",
                              !.ret = "get_project_tree",
                              !.from = Len(log) + 1,
                              !.team = 1,
                              !.group_changed = FALSE,
                              !.existing_teams = get_existing_teams(remote),
                              !.existing_project_tree = get_project_tree(remote)]
                /\ reads' = reads \o Issued(gets)
                /\ UNCHANGED <<remote, params, failAt, readFail, log, hist, build, racers>>

\* the team of the loop's current turn
Team == params.teams[pass.team]

\* the loop body's call of ret, which made the read calls gets, returned
\* context c
LoopReturned(ret, gets, c) ==
    IF Raises(gets) THEN Aborted(gets)
    ELSE /\ remote' = c.remote
         /\ log' = c.log
         /\ reads' = reads \o Issued(gets)
         /\ pass' = [pass EXCEPT !.pc = Then(ret), !.ret = ret,
                                 !.ret_team = pass.team,
                                 !.ret_changed = c.changed,
                                 !.from = Len(log) + 1,
                                 !.group_changed = @ \/ c.changed]
         /\ UNCHANGED <<params, failAt, readFail, hist, build, racers>>

\* existing_teams[team['name']] raises KeyError for a team not listed
ManageOidcGroups ==
    /\ pass.pc = "manage_oidc_groups"
    /\ IF Team.name \notin DOMAIN pass.existing_teams
       THEN /\ pass' = [pass EXCEPT !.pc = "failed", !.ret = "KeyError",
                                    !.ret_team = pass.team,
                                    !.from = Len(log) + 1]
            /\ UNCHANGED <<remote, params, failAt, readFail, log, reads, hist, build, racers>>
       ELSE LoopReturned("manage_oidc_groups", <<Get("oidc/group", NoId)>>,
                         manage_oidc_groups(Begin(remote, log),
                             pass.existing_teams[Team.name], Team.oidc_groups))

ManagePermissions ==
    /\ pass.pc = "manage_permissions"
    /\ LoopReturned("manage_permissions", << >>,
                    manage_permissions(Begin(remote, log),
                        pass.existing_teams[Team.name], Team.permissions))

\* line 440: the value activate_portfolio_access_control returns is bound
\* to no name, so it is not or-ed into manage_group_mappings' changed
ActivatePortfolioAccessControl ==
    /\ pass.pc = "activate_portfolio_access_control"
    /\ LET c == activate_portfolio_access_control(Begin(remote, log))
       IN  /\ remote' = c.remote
           /\ log' = c.log
           /\ pass' = [pass EXCEPT
                         !.pc = Then("activate_portfolio_access_control"),
                         !.ret = "activate_portfolio_access_control",
                         !.ret_team = pass.team,
                         !.ret_changed = c.changed,
                         !.from = Len(log) + 1]
    /\ UNCHANGED <<params, failAt, readFail, reads, hist, build, racers>>

\* the last call of the loop's body; after the last team the function
\* returns changed to run_module
ManagePortfolioAccessControl ==
    /\ pass.pc = "manage_portfolio_access_control"
    /\ LET pac == Team.portfolio_access_control
           c == manage_portfolio_access_control(Begin(remote, log),
                    pass.existing_project_tree, pass.existing_teams[Team.name], pac)
           last == pass.team = Len(params.teams)
       IN  /\ remote' = c.remote
           /\ log' = c.log
           /\ pass' = [pass EXCEPT
                         !.pc = IF last THEN "exit" ELSE "manage_oidc_groups",
                         !.ret = "manage_portfolio_access_control",
                         !.ret_team = pass.team,
                         !.ret_changed = c.changed,
                         !.from = Len(log) + 1,
                         !.projects = DesiredProjects(pass.existing_project_tree, pac),
                         !.team = IF last THEN @ ELSE @ + 1,
                         !.group_changed = @ \/ c.changed,
                         !.changed = IF last
                                     THEN @ \/ pass.group_changed \/ c.changed
                                     ELSE @]
           /\ UNCHANGED <<params, failAt, readFail, reads, hist, build, racers>>

DeleteOidcGroups ==
    /\ pass.pc = "start"
    /\ Entry(params) = "delete_oidc_groups"
    /\ Returned("delete_oidc_groups", <<Get("oidc/group", NoId)>>,
                delete_oidc_groups(Begin(remote, log), params.oidc_groups))

DeleteTeams ==
    /\ pass.pc = "delete_teams"
    /\ Returned("delete_teams", <<Get("team", NoId)>>,
                delete_teams(Begin(remote, log), params.teams))

\* delete_projects returns False whatever its calls answered
DeleteProjects ==
    /\ pass.pc = "delete_projects"
    /\ LET c == delete_projects(Begin(remote, log), params.projects)
       IN  Returned("delete_projects", ProjectTreeReads(remote),
                    [c EXCEPT !.changed = FALSE])

\* module.exit_json(**result)
ExitJson ==
    /\ pass.pc = "exit"
    /\ pass' = [pass EXCEPT !.pc = "done"]
    /\ UNCHANGED <<remote, params, failAt, readFail, log, reads, hist, build, racers>>

\* the caller invokes the module again with the same parameters
RunAgain ==
    /\ pass.pc = "done"
    /\ pass.again > 0
    /\ hist' = Append(hist, [changed |-> pass.changed, remote |-> remote,
                             log |-> log])
    /\ pass' = NewPass(remote, pass.again - 1)
    /\ log' = << >>
    /\ reads' = << >>
    /\ UNCHANGED <<remote, params, failAt, readFail, build, racers>>

Next ==
    \/ CheckModeExit
    \/ CreateOidcGroups
    \/ CreateTeams
    \/ CreateProjects
    \/ GetTeamApiKeys
    \/ ManageGroupMappings
    \/ ManageOidcGroups
    \/ ManagePermissions
    \/ ActivatePortfolioAccessControl
    \/ ManagePortfolioAccessControl
    \/ DeleteOidcGroups
    \/ DeleteTeams
    \/ DeleteProjects
    \/ ExitJson
    \/ RunAgain

(***************************************************************************)
(* Initial states: the server before the first pass and the parameters of  *)
(* the pass, drawn from families that each vary one part of the state.     *)
(***************************************************************************)
\* the names of the server's first projects, by uuid, and further names
ProjNames == << "A", "B", "D", "C", "E", "F" >>
InitialIds == 1 .. MaxProjects
NewName == ProjNames[MaxProjects + 1]
InitialNames == {ProjNames[i] : i \in InitialIds}

\* the uuids of the groups and teams the server may hold at first
GroupId(g) == IF g = "G1" THEN MaxProjects + 1 ELSE MaxProjects + 2
TeamId(t) == IF t = "T1" THEN MaxProjects + 3 ELSE MaxProjects + 4
FirstFreeId == MaxProjects + 5

IdDict(names, Id(_)) == [n \in names |-> Id(n)]

\* the forests of n projects named apart: every project's parent is an
\* older project or none
Forests(n) ==
    {[i \in 1 .. n |-> [name |-> ProjNames[i], parent |-> f[i]]] :
        f \in {g \in [1 .. n -> 0 .. n] : \A i \in 1 .. n : g[i] < i}}

\* a forest in which the youngest project bears the name of another that
\* is not its sibling
Aliased(n) ==
    {[f EXCEPT ![n].name = f[j].name] :
        <<f, j>> \in {x \in Forests(n) \X (1 .. n) :
                         x[2] < n /\ x[1][x[2]].parent # x[1][n].parent}}

Server(projects, groups, teams, mappings, perms, acl) ==
    [groups |-> IdDict(groups, GroupId), teams |-> IdDict(teams, TeamId),
     projects |-> projects, mappings |-> mappings, perms |-> perms, acl |-> acl,
     aclEnabled |-> FALSE, nextId |-> FirstFreeId]

NoVerify == [enabled |-> FALSE, root_project |-> ""]
NoPac == [verify |-> NoVerify, projects |-> << >>]

TeamOf(name, oidc_groups, permissions, pac) ==
    [name |-> name, oidc_groups |-> oidc_groups, permissions |-> permissions,
     portfolio_access_control |-> pac]

ProjectOf(name, parent) ==
    [name |-> name, parent |-> parent, classifier |-> "APPLICATION"]

Params(state, check_mode, oidc_groups, teams, projects) ==
    [state |-> state, check_mode |-> check_mode, oidc_groups |-> oidc_groups,
     teams |-> teams, projects |-> projects]

\* the lists of at most two of the names of a sequence
Lists(names) ==
    {<< >>} \cup {<<names[i]>> : i \in DOMAIN names}
    \cup {<<names[x[1]], names[x[2]]>> :
             x \in {y \in (DOMAIN names) \X (DOMAIN names) : y[1] <= y[2]}}

\* the portfolio access control policies a team is given: verification off
\* or on, the root a project of the server or no project ("X")
InitialSeq == [i \in InitialIds |-> ProjNames[i]]
RootNames == InitialNames \cup {"X"}
PacsOver(lists) ==
    {[verify |-> NoVerify, projects |-> l] : l \in lists}
    \cup {[verify |-> [enabled |-> TRUE, root_project |-> r], projects |-> l] :
             r \in RootNames, l \in lists}

\* the two smaller machines at rest
Idle == [pc |-> "idle"]

InitWith(servers, parameters, failures, again) ==
    /\ remote \in servers
    /\ params \in parameters
    /\ failAt \in failures
    /\ readFail = NoReadFailure
    /\ pass \in {NewPass(remote, a) : a \in again}
    /\ log = << >>
    /\ reads = << >>
    /\ hist = << >>
    /\ build = Idle
    /\ racers = Idle

NoFailure == {{}}
OneFailure == {{i} : i \in 1 .. FailWindow}

\* one existing team's project ACL against every forest; the team holds
\* entries for no project, for one, for two or for all
InitAcl ==
    InitWith(
        {Server(f, {}, {"T1"}, {}, {}, {TeamId("T1")} \X a) :
            f \in Forests(MaxProjects),
            a \in {h \in SUBSET InitialIds :
                      Cardinality(h) <= 2 \/ h = InitialIds}}
        \cup {Server(f, {}, {"T1"}, {}, {}, {TeamId("T1")} \X a) :
                 f \in Aliased(MaxProjects), a \in {{}, InitialIds}},
        {Params("present", FALSE, << >>, <<TeamOf("T1", << >>, << >>, p)>>, << >>) :
            p \in PacsOver(Lists(Append(InitialSeq, "X")))},
        NoFailure, {0})

\* the same with a project created by the pass, run twice
InitAclCreate ==
    InitWith(
        {Server(f, {}, {"T1"}, {}, {}, {}) : f \in Forests(MaxProjects)},
        {Params("present", FALSE, << >>, <<TeamOf("T1", << >>, << >>, p)>>,
                <<ProjectOf(NewName, parent)>>) :
            p \in PacsOver({<<NewName>>, <<"B", NewName>>}),
            parent \in InitialNames \cup {None}},
        NoFailure, {0, 1})

\* the same with one write call refused
InitAclFail ==
    InitWith(
        {Server(f, {}, {"T1"}, {}, {}, {TeamId("T1")} \X a) :
            f \in Forests(MaxProjects), a \in {{}, InitialIds}},
        {Params("present", FALSE, << >>, <<TeamOf("T1", << >>, << >>, p)>>, << >>) :
            p \in {[verify |-> NoVerify, projects |-> l] :
                      l \in Lists(Append(InitialSeq, "X"))}},
        OneFailure, {0})

\* two existing teams' group mappings, run once or twice
GroupLists == {<< >>, <<"G1">>, <<"G2">>, <<"G1", "G2">>, <<"G3">>}
MappingServers ==
    {Server(f, gs, {"T1", "T2"}, m, {}, {}) :
        f \in Forests(1), gs \in SUBSET {"G1", "G2"},
        m \in SUBSET ({GroupId("G1"), GroupId("G2")} \X {TeamId("T1"), TeamId("T2")})}
InitMap ==
    InitWith(
        {r \in MappingServers :
            \A m \in r.mappings : \E g \in DOMAIN r.groups : r.groups[g] = m[1]},
        {Params("present", FALSE, gs, ts, << >>) :
            gs \in {<< >>, <<"G1">>},
            ts \in {<<TeamOf("T1", g, << >>, NoPac)>> : g \in GroupLists}
                   \cup {<<TeamOf("T1", g, << >>, NoPac), TeamOf("T2", h, << >>, NoPac)>> :
                            g \in GroupLists, h \in GroupLists}},
        NoFailure, {0, 1})

InitMapFail ==
    InitWith(
        {Server(f, {"G1", "G2"}, {"T1", "T2"}, m, {}, {}) :
            f \in Forests(1),
            m \in {{}, {<<GroupId("G1"), TeamId("T1")>>, <<GroupId("G2"), TeamId("T2")>>}}},
        {Params("present", FALSE, << >>,
                <<TeamOf("T1", g, << >>, NoPac), TeamOf("T2", h, << >>, NoPac)>>, << >>) :
            g \in {<<"G1">>, <<"G1", "G2">>}, h \in {<< >>, <<"G2">>}},
        OneFailure, {0})

\* one existing team's permissions
PermLists ==
    {<< >>, <<"BOM_UPLOAD">>, <<"BOM_UPLOAD", "BOM_UPLOAD">>,
     <<"VIEW_PORTFOLIO", "BOM_UPLOAD">>,
     <<"ACCESS_MANAGEMENT", "VULNERABILITY_MANAGEMENT">>, PERMISSIONS}
InitPerm ==
    InitWith(
        {Server(f, {}, {"T1"}, {}, {TeamId("T1")} \X ps, {}) :
            f \in Forests(1), ps \in SUBSET {"BOM_UPLOAD", "VIEW_PORTFOLIO"}},
        {Params("present", FALSE, << >>, <<TeamOf("T1", << >>, ps, NoPac)>>, << >>) :
            ps \in PermLists},
        NoFailure \cup OneFailure, {0, 1})

\* state=absent against servers that hold some of what is named
SmallForests == Forests(0) \cup Forests(1) \cup Forests(2)
InitAbsent ==
    InitWith(
        {Server(f, gs, ts, {}, {}, {}) :
            f \in SmallForests, gs \in SUBSET {"G1", "G2"}, ts \in SUBSET {"T1", "T2"}},
        {Params("absent", FALSE, gs, ts, ps) :
            gs \in {<< >>, <<"G1">>, <<"G1", "G1">>, <<"G2", "G3">>},
            ts \in {<< >>, <<TeamOf("T1", << >>, << >>, NoPac)>>,
                    <<TeamOf("T2", << >>, << >>, NoPac), TeamOf("T2", << >>, << >>, NoPac)>>,
                    <<TeamOf("T1", << >>, << >>, NoPac), TeamOf("T2", << >>, << >>, NoPac)>>},
            ps \in {[i \in DOMAIN l |-> ProjectOf(l[i], None)] :
                       l \in Lists(<<"A", "B", "X">>)}},
        NoFailure, {0})

InitAbsentFail ==
    InitWith(
        {Server(f, {"G1"}, {"T1"}, {}, {}, {}) : f \in Forests(2)},
        {Params("absent", FALSE, <<"G1">>, <<TeamOf("T1", << >>, << >>, NoPac)>>,
                <<ProjectOf("B", None), ProjectOf("A", None)>>)},
        OneFailure, {0})

\* everything at once on a small server: either state, check mode, teams
\* and projects that do not exist yet, the pass run once or twice
FullTeam(name) ==
    TeamOf(name, <<"G1">>, <<"BOM_UPLOAD">>,
           [verify |-> NoVerify, projects |-> <<"A">>])
GeneralServers ==
    {Server(f, gs, ts, {}, {}, {}) :
        f \in Forests(0) \cup Forests(1), gs \in SUBSET {"G1"}, ts \in SUBSET {"T1"}}
GeneralProjects ==
    {<< >>, <<ProjectOf("A", None)>>, <<ProjectOf("B", "A")>>,
     <<ProjectOf("A", None), ProjectOf("B", "A")>>,
     <<ProjectOf("B", "A"), ProjectOf("A", None)>>,
     <<ProjectOf("A", None), ProjectOf("A", None)>>}
GeneralTeams ==
    {<< >>, <<FullTeam("T1")>>, <<FullTeam("T1"), FullTeam("T2")>>,
     <<FullTeam("T1"), FullTeam("T1")>>}
InitGeneral ==
    InitWith(
        GeneralServers,
        {Params(st, cm, gs, ts, ps) :
            st \in {"present", "absent"}, cm \in BOOLEAN,
            gs \in {<< >>, <<"G1">>, <<"G1", "G2">>},
            ts \in GeneralTeams, ps \in GeneralProjects},
        NoFailure, {0, 1})

InitGeneralFail ==
    InitWith(
        GeneralServers,
        {Params("present", FALSE, gs, ts, ps) :
            gs \in {<< >>, <<"G1">>},
            ts \in GeneralTeams, ps \in GeneralProjects},
        OneFailure, {0})

\* the read calls of a pass one of which the server fails to answer: the
\* step of the pass, the path, the project asked for, the body of the answer
ReadFailures ==
    {[step |-> x[1], path |-> x[2], id |-> NoId, body |-> b] :
        x \in {<<"start", "oidc/group">>, <<"create_teams", "team">>,
               <<"create_projects", "project?onlyRoot=true">>,
               <<"get_team_api_keys", "team">>,
               <<"manage_group_mappings", "team">>,
               <<"manage_group_mappings", "project?onlyRoot=true">>,
               <<"manage_oidc_groups", "oidc/group">>,
               <<"delete_teams", "team">>,
               <<"delete_projects", "project?onlyRoot=true">>},
        b \in {"text", "object"}}
    \cup {[step |-> st, path |-> "project", id |-> i, body |-> b] :
             st \in {"create_projects", "manage_group_mappings", "delete_projects"},
             i \in InitialIds, b \in {"text", "object"}}

\* the forests of n projects with the names of the second and the third
\* project exchanged: the second name may then lie two levels down
Exchanged(n) ==
    {[f EXCEPT ![2].name = f[3].name, ![3].name = f[2].name] : f \in Forests(n)}

\* passes one read call of which is not answered: a team that holds an ACL
\* entry for every project and desires the first project, the second or
\* none; the second also over the forests with the names exchanged
InitReadFail ==
    /\ \E exchanged \in BOOLEAN :
           /\ remote \in {Server(f, {"G1"}, {"T1"}, {}, {},
                                 {<<TeamId("T1"), i>> : i \in InitialIds}) :
                             f \in IF exchanged THEN Exchanged(MaxProjects)
                                   ELSE Forests(MaxProjects)}
           /\ params \in {Params(st, FALSE, <<"G1">>,
                                 <<TeamOf("T1", <<"G1">>, << >>,
                                          [verify |-> NoVerify, projects |-> l])>>,
                                 ps) :
                            st \in {"present", "absent"},
                            l \in IF exchanged THEN {<<ProjNames[2]>>}
                                  ELSE {<< >>, <<ProjNames[1]>>, <<ProjNames[2]>>},
                            ps \in {<< >>, <<ProjectOf(ProjNames[MaxProjects], None)>>}}
    /\ failAt = {}
    /\ readFail \in ReadFailures
    /\ pass = NewPass(remote, 0)
    /\ log = << >>
    /\ reads = << >>
    /\ hist = << >>
    /\ build = Idle
    /\ racers = Idle

Init ==
    \/ InitReadFail
    \/ InitAcl
    \/ InitAclCreate
    \/ InitAclFail
    \/ InitMap
    \/ InitMapFail
    \/ InitPerm
    \/ InitAbsent
    \/ InitAbsentFail
    \/ InitGeneral
    \/ InitGeneralFail

Spec == Init /\ [][Next]_vars

(***************************************************************************)
(* add_children_to_project_tree call by call.  build.tree is the tree the  *)
(* calls work on in place, build.stack the calls in progress: each frame   *)
(* has the path of the dict its loop runs over, the keys the loop has yet  *)
(* to visit (the first is the current one) and the line the loop is at:    *)
(* "children" before the test for the key children (606), "id" before the  *)
(* test for an id (608), "again" before the second descent (612).          *)
(* build.gets are the GET calls issued.                                    *)
(***************************************************************************)
RECURSIVE SubtreeAt(_, _)
SubtreeAt(project_tree, path) ==
    IF path = << >> THEN project_tree
    ELSE SubtreeAt(project_tree[Head(path)][DICT_KEY_CHILDREN], Tail(path))

RECURSIVE WithSubtree(_, _, _)
WithSubtree(project_tree, path, sub) ==
    IF path = << >> THEN sub
    ELSE [project_tree EXCEPT ![Head(path)][DICT_KEY_CHILDREN] =
                                  WithSubtree(@, Tail(path), sub)]

\* a call of add_children_to_project_tree on the dict at path
Frame(project_tree, path) ==
    [path |-> path, keys |-> TreeKeys(SubtreeAt(project_tree, path)),
     at |-> "children"]

Top == build.stack[Len(build.stack)]
Key == Head(Top.keys)
Node == SubtreeAt(build.tree, Top.path)[Key]
Running == build.pc = "running" /\ Top.keys # << >>

\* the call in progress moves to line at, with the rest of its keys, and
\* calls itself on the children of the current key when descend
Step(project_tree, at, keys, descend) ==
    LET moved == [build.stack EXCEPT ![Len(build.stack)].at = at,
                                     ![Len(build.stack)].keys = keys]
    IN  IF descend
        THEN Append(moved, Frame(project_tree, Append(Top.path, Key)))
        ELSE moved

\* the tree with the node of the current key replaced
WithNode(node) ==
    WithSubtree(build.tree, Top.path,
                [SubtreeAt(build.tree, Top.path) EXCEPT ![Key] = node])

\* lines 606-607: the first descent into the children of the current key,
\* made only when the node has the key children; without it the loop goes on
\* to line 608 and no call is made
DescendChildren ==
    /\ Running
    /\ Top.at = "children"
    /\ build' = [build EXCEPT
                    !.stack = Step(build.tree, "id", Top.keys, HasChildren(Node))]
    /\ UNCHANGED <<remote, params, failAt, readFail, pass, log, reads, hist, racers>>

\* lines 608-611: the node has an id; its children are fetched and set
FetchChildren ==
    /\ Running
    /\ Top.at = "id"
    /\ Node[DICT_KEY_ID] # NoId
    /\ LET children == get_children_of_project(remote, Node[DICT_KEY_ID])
           fetched == WithNode(FetchedInto(Node, children))
       IN  build' = [build EXCEPT
                       !.tree = fetched,
                       !.gets = Append(@, Get("project", Node[DICT_KEY_ID])),
                       !.stack = Step(fetched, "again", Top.keys, FALSE)]
    /\ UNCHANGED <<remote, params, failAt, readFail, pass, log, reads, hist, racers>>

\* a node without an id that is never passed over
SkipNode_unhandled ==
    /\ FALSE
    /\ UNCHANGED vars

\* line 608 false: a node without an id is passed over, the loop goes on
SkipNode ==
    /\ Running
    /\ Top.at = "id"
    /\ Node[DICT_KEY_ID] = NoId
    /\ build' = [build EXCEPT
                    !.stack = Step(build.tree, "children", Tail(Top.keys), FALSE)]
    /\ UNCHANGED <<remote, params, failAt, readFail, pass, log, reads, hist, racers>>

\* line 612: the second descent, after which the loop goes on; the
\* argument project_tree[k][DICT_KEY_CHILDREN] makes the key children of a
\* node that has none
DescendAgain ==
    /\ Running
    /\ Top.at = "again"
    /\ LET made == WithNode(WithChildren(Node, Children(Node)))
       IN  build' = [build EXCEPT
                       !.tree = made,
                       !.stack = Step(made, "children", Tail(Top.keys), TRUE)]
    /\ UNCHANGED <<remote, params, failAt, readFail, pass, log, reads, hist, racers>>

\* line 613: the loop is over, the call returns; the outermost call returns
\* the tree
Return ==
    /\ build.pc = "running"
    /\ Top.keys = << >>
    /\ build' = [build EXCEPT
                    !.stack = SubSeq(@, 1, Len(@) - 1),
                    !.pc = IF Len(build.stack) = 1 THEN "built" ELSE "running"]
    /\ UNCHANGED <<remote, params, failAt, readFail, pass, log, reads, hist, racers>>

\* the trees the build may start from: the seed of get_project_tree, the
\* roots alone, and the seed under a node that has no id
RootsOnly(r) == SetChildren(tree, Items(r, ChildrenOf(r, NoId)))
UnderPlaceholder(project_tree) ==
    [n \in {"X"} |-> WithChildren(Leaf(NoId, 1), project_tree)]
Seeds(r) == {Seed(r), RootsOnly(r), UnderPlaceholder(Seed(r))}

TreeInit ==
    /\ remote \in {Server(f, {}, {}, {}, {}, {}) : f \in Forests(MaxProjects)}
    /\ params = [state |-> "present", oidc_groups |-> << >>, teams |-> << >>,
                 projects |-> << >>, check_mode |-> FALSE]
    /\ failAt = {}
    /\ readFail = NoReadFailure
    /\ pass = NewPass(remote, 0)
    /\ log = << >>
    /\ reads = << >>
    /\ hist = << >>
    /\ racers = Idle
    /\ build \in {[pc |-> "running", seed |-> t, tree |-> t, gets |-> << >>,
                    stack |-> <<Frame(t, << >>)>>] : t \in Seeds(remote)}

TreeNext ==
    \/ DescendChildren
    \/ FetchChildren
    \/ SkipNode
    \/ DescendAgain
    \/ Return

\* a call in progress goes on: nothing but the call itself can suspend it
TreeSpec == TreeInit /\ [][TreeNext]_vars /\ WF_vars(TreeNext)

(***************************************************************************)
(* create_teams of two present passes against one server, line by line.    *)
(* Each run lists the teams once (369), then for every desired team either *)
(* passes it over (374-375) or issues its create call (376-380).           *)
(* racers.run[p] is run p: its desired teams, its existing_teams list, the *)
(* index of its loop and the create calls it issued; listed keeps the      *)
(* names its listing showed.                                               *)
(***************************************************************************)
Passes == {1, 2}

Run(p) == racers.run[p]

\* line 374: if team_name in existing_teams
InListing_never(existing_teams, team_name) == FALSE

InListing(existing_teams, team_name) == team_name \in existing_teams

\* line 369: existing_teams = list(get_existing_teams(url, api_key).keys())
ListTeams(p) ==
    /\ racers.pc = "racing"
    /\ Run(p).pc = "list"
    /\ racers' = [racers EXCEPT
                     !.run[p].pc = "loop",
                     !.run[p].existing_teams = DOMAIN get_existing_teams(remote),
                     !.run[p].listed = DOMAIN remote.teams]
    /\ UNCHANGED <<remote, params, failAt, readFail, pass, log, reads, hist, build>>

\* lines 372-375: the team is in the list and is passed over
SkipTeam(p) ==
    /\ racers.pc = "racing"
    /\ Run(p).pc = "loop"
    /\ Run(p).i <= Len(Run(p).teams)
    /\ InListing(Run(p).existing_teams, Run(p).teams[Run(p).i].name)
    /\ racers' = [racers EXCEPT !.run[p].i = @ + 1]
    /\ UNCHANGED <<remote, params, failAt, readFail, pass, log, reads, hist, build>>

\* lines 376-380: the create call, and the list grown when it is answered 201
CreateTeam(p) ==
    /\ racers.pc = "racing"
    /\ Run(p).pc = "loop"
    /\ Run(p).i <= Len(Run(p).teams)
    /\ ~InListing(Run(p).existing_teams, Run(p).teams[Run(p).i].name)
    /\ LET team_name == Run(p).teams[Run(p).i].name
           resp == PutTeam(remote, team_name, TRUE)
       IN  /\ remote' = resp.remote
           /\ racers' = [racers EXCEPT
                            !.run[p].i = @ + 1,
                            !.run[p].changed = @ \/ resp.status = 201,
                            !.run[p].existing_teams =
                                IF resp.status = 201 THEN @ \cup {team_name}
                                ELSE @,
                            !.run[p].calls =
                                Append(@, [name |-> team_name,
                                           status |-> resp.status])]
    /\ UNCHANGED <<params, failAt, readFail, pass, log, reads, hist, build>>

\* line 381: return changed
ReturnTeams(p) ==
    /\ racers.pc = "racing"
    /\ Run(p).pc = "loop"
    /\ Run(p).i > Len(Run(p).teams)
    /\ racers' = [racers EXCEPT !.run[p].pc = "returned"]
    /\ UNCHANGED <<remote, params, failAt, readFail, pass, log, reads, hist, build>>

\* the desired team lists of a run: none, one team, two teams in either order
RaceTeams ==
    LET T(n) == TeamOf(n, << >>, << >>, NoPac)
    IN  {<< >>, <<T("T1")>>, <<T("T2")>>, <<T("T1"), T("T2")>>,
         <<T("T2"), T("T1")>>}

StartOf(teams) ==
    [pc |-> "list", teams |-> teams, existing_teams |-> {}, listed |-> {},
     i |-> 1, changed |-> FALSE, calls |-> << >>]

RaceInit ==
    /\ remote \in {Server(<< >>, {}, ts, {}, {}, {}) : ts \in {{}, {"T1"}}}
    /\ params = [state |-> "present", oidc_groups |-> << >>, teams |-> << >>,
                 projects |-> << >>, check_mode |-> FALSE]
    /\ failAt = {}
    /\ readFail = NoReadFailure
    /\ pass = NewPass(remote, 0)
    /\ log = << >>
    /\ reads = << >>
    /\ hist = << >>
    /\ build = Idle
    /\ racers \in {[pc |-> "racing", before |-> remote,
                     run |-> [p \in Passes |-> StartOf(t[p])]] :
                        t \in [Passes -> RaceTeams]}

RaceNext ==
    \E p \in Passes :
        \/ ListTeams(p)
        \/ SkipTeam(p)
        \/ CreateTeam(p)
        \/ ReturnTeams(p)

RaceSpec == RaceInit /\ [][RaceNext]_vars

(***************************************************************************)
(* What the properties speak of                                            *)
(***************************************************************************)
\* the write calls issued by the call that returned last
Segment == pass.from .. Len(log)

\* no write call of the pass has been refused so far
NoRefusal == \A i \in failAt : i > Len(log)

\* every read call of the pass so far was answered
AllAnswered == \A i \in DOMAIN reads : reads[i].ok

\* the policy of the team whose portfolio access control was managed last
LastPac == params.teams[pass.ret_team].portfolio_access_control
LastRoot == LastPac.verify.root_project
AfterPortfolio == pass.ret = "manage_portfolio_access_control"

\* the server's projects of a name, and whether project p is project a or
\* one of its descendants, by the server's parent links
NamedIds(r, n) == {p \in DOMAIN r.projects : r.projects[p].name = n}
RECURSIVE Under(_, _, _)
Under(r, p, a) ==
    \/ p = a
    \/ /\ r.projects[p].parent # NoId
       /\ Under(r, r.projects[p].parent, a)
UniqueNames(r) ==
    \A p, q \in DOMAIN r.projects : r.projects[p].name = r.projects[q].name => p = q

\* project p, which the server held when the pass began, lies below a
\* project that is no root and whose GET, made by the routine step, was
\* answered with an error object: the tree that routine read has no node
\* for p
Missed(step, p) ==
    /\ readFail.step = step
    /\ readFail.path = "project"
    /\ readFail.body = "object"
    /\ readFail.id \in DOMAIN pass.before.projects
    /\ pass.before.projects[readFail.id].parent # NoId
    /\ p # readFail.id
    /\ Under(pass.before, p, readFail.id)

\* name n is the root's name or names a node of the subtree of a node
\* named root
InScope(r, root, n) ==
    \/ n = root
    \/ \E p \in NamedIds(r, n), a \in NamedIds(r, root) : Under(r, p, a)

AclCalls(m) == {i \in Segment : log[i].path = "acl/mapping" /\ log[i].m = m}

(***************************************************************************)
(* C2: with unique names and a root that names a node anywhere in the      *)
(* forest, top-level or nested, filter_project_list returns exactly the    *)
(* requested names that equal the root or name a node of its subtree.      *)
(***************************************************************************)
C2_ScopeOfAnyNode ==
    (/\ AfterPortfolio
     /\ LastPac.verify.enabled
     /\ UniqueNames(remote)
     /\ NamedIds(remote, LastRoot) # {})
    => pass.projects =
           SelectSeq(LastPac.projects, LAMBDA n : InScope(remote, LastRoot, n))

(***************************************************************************)
(* C3: fail closed.  When the root names no node of the project tree,      *)
(* filter_project_list returns the empty list for every requested list,    *)
(* also one that holds the root's name, and no ACL entry is created.       *)
(***************************************************************************)
C3_FailClosed ==
    (/\ AfterPortfolio
     /\ LastPac.verify.enabled
     /\ NamedIds(remote, LastRoot) = {})
    => /\ pass.projects = << >>
       /\ AclCalls("PUT") = {}

C3_Witness ==
    /\ AfterPortfolio
    /\ LastPac.verify.enabled
    /\ NamedIds(remote, LastRoot) = {}
    /\ LastRoot \in Range(LastPac.projects)
    /\ \E n \in Range(LastPac.projects) : NamedIds(remote, n) # {}
    /\ pass.projects = << >>

(***************************************************************************)
(* C4: ACL convergence over the whole tree.  After the project-ACL         *)
(* reconciliation of a team in which no write was refused, the team holds  *)
(* an ACL entry for a project of the server, at any depth, if and only if  *)
(* the project's name is in the team's desired project list.  The tree is  *)
(* the one built from read calls that were all answered.                   *)
(***************************************************************************)
LastTeam == params.teams[pass.ret_team]
LastTeamId == pass.existing_teams[LastTeam.name]

C4_AclConvergence ==
    (AfterPortfolio /\ NoRefusal /\ AllAnswered)
    => \A p \in DOMAIN remote.projects :
           <<LastTeamId, p>> \in remote.acl
           <=> remote.projects[p].name \in Range(pass.projects)

\* a grandchild's entry of an earlier pass is revoked below a parent that
\* is granted
C4_Witness ==
    /\ AfterPortfolio
    /\ NoRefusal
    /\ \E p \in DOMAIN remote.projects :
          LET q == remote.projects[p].parent
          IN  /\ q # NoId
              /\ remote.projects[q].parent # NoId
              /\ <<LastTeamId, p>> \in pass.before.acl
              /\ <<LastTeamId, p>> \notin remote.acl
              /\ remote.projects[p].name \notin Range(pass.projects)
              /\ remote.projects[q].name \in Range(pass.projects)
              /\ <<LastTeamId, q>> \in remote.acl

(***************************************************************************)
(* C5: ACL shrink.  For a team that holds ACL entries for projects B and   *)
(* D, a pass whose desired project set is {B} issues an ACL delete call    *)
(* for D and no ACL call for B.                                            *)
(***************************************************************************)
HeldBefore(n) ==
    {p \in NamedIds(pass.before, n) : <<LastTeamId, p>> \in pass.before.acl}
ShrinkToB ==
    /\ AfterPortfolio
    /\ Range(pass.projects) = {"B"}
    /\ HeldBefore("B") # {}
    /\ HeldBefore("D") # {}
AclCallsFor(p) ==
    {i \in Segment : /\ log[i].path = "acl/mapping"
                     /\ log[i].id = LastTeamId
                     /\ log[i].id2 = p}

Untouched(p) ==
    /\ AclCallsFor(p) = {}
    /\ <<LastTeamId, p>> \in remote.acl

C6_RootDescent ==
    AfterPortfolio
    => /\ pass.pc # "failed"
       /\ (LastPac.verify.enabled /\ UniqueNames(remote))
          => /\ \A i \in AclCalls("PUT") :
                   \E a \in NamedIds(remote, LastRoot) : Under(remote, log[i].id2, a)
             /\ \A n \in Range(pass.projects) : InScope(remote, LastRoot, n)
       /\ ~LastPac.verify.enabled => pass.projects = LastPac.projects

\* a requested project outside the root's subtree is passed by while one
\* inside it is granted
C6_Witness ==
    /\ AfterPortfolio
    /\ pass.pc # "failed"
    /\ LastPac.verify.enabled
    /\ UniqueNames(remote)
    /\ \E n \in Range(LastPac.projects) :
          /\ NamedIds(remote, n) # {}
          /\ ~InScope(remote, LastRoot, n)
          /\ n \notin Range(pass.projects)
    /\ \E i \in AclCalls("PUT") :
          /\ log[i].status = 200
          /\ remote.projects[log[i].id2].parent # NoId

(***************************************************************************)
(* C7: group-mapping symmetry.  For one team manage_oidc_groups issues     *)
(* exactly one mapping PUT for every group of the server that the team     *)
(* desires, exactly one mapping DELETE for every other group of the        *)
(* server, and no other call: none for a desired group the server lacks.   *)
(***************************************************************************)
AfterOidcGroups == pass.ret = "manage_oidc_groups"
GroupCalls(g) == {i \in Segment : log[i].id = remote.groups[g]}

C7_MappingSymmetry ==
    AfterOidcGroups
    => /\ \A g \in DOMAIN remote.groups :
             /\ Cardinality(GroupCalls(g)) = 1
             /\ \A i \in GroupCalls(g) :
                   /\ log[i].path = "oidc/mapping"
                   /\ IF g \in Range(LastTeam.oidc_groups)
                      THEN log[i].m = "PUT" /\ log[i].id2 = LastTeamId
                      ELSE log[i].m = "DELETE"
       /\ Cardinality(Segment) = Cardinality(DOMAIN remote.groups)

C7_Witness ==
    /\ AfterOidcGroups
    /\ Range(LastTeam.oidc_groups) = {"G1"}
    /\ DOMAIN remote.groups = {"G1", "G2"}
    /\ \E i \in GroupCalls("G1") : log[i].m = "PUT" /\ log[i].status = 200
    /\ \E i \in GroupCalls("G2") : log[i].m = "DELETE" /\ log[i].status = 200

(***************************************************************************)
(* C8: group-mapping convergence across teams.  After a present pass over  *)
(* two or more teams in which no write was refused, every team is mapped   *)
(* to exactly those of its desired OIDC groups that exist on the server.   *)
(***************************************************************************)
MappedGroups(r, team) ==
    {g \in DOMAIN r.groups : <<r.groups[g], r.teams[team]>> \in r.mappings}

C8_MappingConvergence ==
    (/\ pass.pc = "done"
     /\ params.state = "present"
     /\ ~params.check_mode
     /\ NoRefusal
     /\ Len(params.teams) >= 2
     /\ \A i, j \in DOMAIN params.teams :
           params.teams[i].name = params.teams[j].name => i = j)
    => \A i \in DOMAIN params.teams :
           /\ params.teams[i].name \in DOMAIN remote.teams
           /\ MappedGroups(remote, params.teams[i].name)
              = Range(params.teams[i].oidc_groups) \cap DOMAIN remote.groups

(***************************************************************************)
(* C9: permission additivity.  manage_permissions issues exactly one grant *)
(* call for each distinct desired permission of the ten kinds and no other *)
(* call; no call on a permission is anything but a grant, and a permission *)
(* a team held when a present pass began is still held.                    *)
(***************************************************************************)
AfterPermissions == pass.ret = "manage_permissions"

C9_PermissionAdditivity ==
    /\ AfterPermissions
       => /\ \A k \in DOMAIN PERMISSIONS :
                Cardinality({i \in Segment : log[i].name = PERMISSIONS[k]})
                = IF PERMISSIONS[k] \in Range(LastTeam.permissions) THEN 1 ELSE 0
          /\ \A i \in Segment : /\ log[i].path = "permission"
                                /\ log[i].id = LastTeamId
                                /\ log[i].name \in Range(PERMISSIONS)
    /\ \A i \in DOMAIN log : log[i].path = "permission" => log[i].m = "POST"
    /\ (params.state = "present" /\ ~params.check_mode)
       => pass.before.perms \subseteq remote.perms

C9_Witness ==
    /\ AfterPermissions
    /\ Range(LastTeam.permissions) = {"BOM_UPLOAD"}
    /\ Len(LastTeam.permissions) = 2
    /\ <<LastTeamId, "VIEW_PORTFOLIO">> \in pass.before.perms
    /\ <<LastTeamId, "VIEW_PORTFOLIO">> \in remote.perms
    /\ <<LastTeamId, "BOM_UPLOAD">> \notin pass.before.perms
    /\ Cardinality(Segment) = 1
    /\ \A i \in Segment : log[i].name = "BOM_UPLOAD" /\ log[i].status = 200

(***************************************************************************)
(* C10: absent-path deletion.  Each delete routine issues a delete call    *)
(* for a desired group, team or project if and only if its name is among   *)
(* those the server held when the routine began, addressed by the listed   *)
(* identifier; when no desired name is held it issues no call and returns  *)
(* changed false.  The projects the server held are what delete_projects   *)
(* lists when its read calls are all answered.                             *)
(***************************************************************************)
SegmentNames == {log[i].name : i \in Segment}
TeamNames == {params.teams[i].name : i \in DOMAIN params.teams}
ProjectNames == {params.projects[i].name : i \in DOMAIN params.projects}
ObservedProjects == {pass.before.projects[p].name : p \in DOMAIN pass.before.projects}

DeletesExactly(path, desired, observed) ==
    /\ SegmentNames = desired \cap observed
    /\ \A i \in Segment : log[i].m = "DELETE" /\ log[i].path = path
    /\ desired \cap observed = {} => ~pass.ret_changed

C10_AbsentDeletes ==
    /\ pass.ret = "delete_oidc_groups"
       => /\ DeletesExactly("oidc/group", Range(params.oidc_groups),
                            DOMAIN pass.before.groups)
          /\ \A i \in Segment : log[i].id = pass.before.groups[log[i].name]
    /\ pass.ret = "delete_teams"
       => /\ DeletesExactly("team", TeamNames, DOMAIN pass.before.teams)
          /\ \A i \in Segment : log[i].id = pass.before.teams[log[i].name]
    /\ (pass.ret = "delete_projects" /\ AllAnswered)
       => /\ DeletesExactly("project", ProjectNames, ObservedProjects)
          /\ \A i \in Segment : log[i].id \in NamedIds(pass.before, log[i].name)
          /\ ~pass.ret_changed

\* of two desired teams the one the server holds is deleted, the other not
C10_Witness ==
    /\ pass.ret = "delete_teams"
    /\ TeamNames = {"T1", "T2"}
    /\ DOMAIN pass.before.teams = {"T1"}
    /\ SegmentNames = {"T1"}
    /\ Cardinality(Segment) = 1
    /\ pass.ret_changed
    /\ DOMAIN remote.teams = {}

(***************************************************************************)
(* C1: idempotence of the present path.  The second of two present passes  *)
(* run in succession with the same desired state, no write refused,        *)
(* returns changed false and leaves the server as the first pass left it.  *)
(* The desired states looked at list every project after its parent: a     *)
(* project listed before a parent that is yet to be created is passed by   *)
(* in create_projects and made by the next pass, which is the routine's    *)
(* design and not what is examined here.                                   *)
(***************************************************************************)
ParentsListedFirst ==
    \A i \in DOMAIN params.projects :
        \/ params.projects[i].parent = None
        \/ \E j \in 1 .. (i - 1) :
               params.projects[j].name = params.projects[i].parent

C1_Idempotent ==
    (/\ pass.pc = "done"
     /\ Len(hist) = 1
     /\ params.state = "present"
     /\ ~params.check_mode
     /\ failAt = {}
     /\ ParentsListedFirst)
    => /\ ~pass.changed
       /\ remote = hist[1].remote

(***************************************************************************)
(* C11: write failures are soft.  A pass whose read calls are all answered *)
(* never ends in an exception, whatever write call the server refuses: a   *)
(* present pass that ends has reconciled every desired team, and a call    *)
(* that is refused does not raise the changed flag of its routine.         *)
(***************************************************************************)
Refused(i) == i \in failAt

C11_WriteFailuresSoft ==
    /\ AllAnswered => pass.pc # "failed"
    /\ (/\ pass.pc = "done"
        /\ Entry(params) = "create_oidc_groups"
        /\ params.teams # << >>)
       => /\ pass.ret = "manage_portfolio_access_control"
          /\ pass.ret_team = Len(params.teams)
    /\ (Segment # {} /\ \A i \in Segment : Refused(i)) => ~pass.ret_changed

(***************************************************************************)
(* C12: read failures are fatal.  Once a read call of a pass was not       *)
(* answered with success the pass has ended in an exception and has issued *)
(* no write call after that read (the read calls of a routine all come     *)
(* before its write calls).                                                *)
(***************************************************************************)
C12_ReadFailuresFatal ==
    \A i \in DOMAIN reads :
        ~reads[i].ok => /\ pass.pc = "failed"
                        /\ Len(log) = reads[i].at

(***************************************************************************)
(* C13: changed aggregation.  The changed value a pass ends with is true   *)
(* if and only if one of its create, grant, mapping or delete calls was    *)
(* answered with the status the interface table marks as a change; a       *)
(* project delete never counts.                                            *)
(***************************************************************************)
IsChange(call) ==
    \/ /\ call.path \in {"oidc/group", "team", "project"}
       /\ call.m = "PUT"
       /\ call.status = 201
    \/ /\ call.path \in {"oidc/group", "team"}
       /\ call.m = "DELETE"
       /\ call.status = 200
    \/ /\ call.path \in {"permission", "oidc/mapping", "acl/mapping"}
       /\ call.status = 200

C13_ChangedIsOr ==
    pass.pc = "done"
    => (pass.changed <=> \E i \in DOMAIN log : IsChange(log[i]))

(***************************************************************************)
(* C14: check mode.  A pass invoked in check mode issues no call, read or  *)
(* write, leaves the server as it found it and ends with changed false,    *)
(* for either value of state.                                              *)
(***************************************************************************)
C14_CheckMode ==
    params.check_mode
    => /\ log = << >>
       /\ reads = << >>
       /\ remote = pass.before
       /\ ~pass.changed
       /\ pass.pc \in {"start", "done"}

\* a check-mode pass over a desired state the server does not meet has ended
C14_Witness ==
    /\ params.check_mode
    /\ pass.pc = "done"
    /\ params.state = "absent"
    /\ \E i \in DOMAIN params.teams : params.teams[i].name \in DOMAIN remote.teams
    /\ Len(hist) = 1
    /\ ~hist[1].changed
    /\ hist[1].log = << >>

(***************************************************************************)
(* C15: driver ordering.  On the present path the write calls of a pass    *)
(* come in the order group creates, team creates, project creates, then    *)
(* the mapping, permission and ACL calls; each of the latter is issued     *)
(* after the API keys were read back and after the project tree of         *)
(* manage_group_mappings was read, and that tree is read after every       *)
(* project create call.  On the absent path the calls are deletes, in the  *)
(* order groups, teams, projects.                                          *)
(***************************************************************************)
Rank(call) ==
    CASE call.path = "oidc/group" -> 1
      [] call.path = "team" -> 2
      [] call.path = "project" -> 3
      [] OTHER -> 4

C15_DriverOrder ==
    /\ \A i \in 1 .. (Len(log) - 1) : Rank(log[i]) <= Rank(log[i + 1])
    /\ \A i \in DOMAIN log :
           Rank(log[i]) = 4
           => \E b \in DOMAIN reads :
                  /\ reads[b].step = "manage_group_mappings"
                  /\ \E l \in DOMAIN reads[b].lists :
                         reads[b].lists[l] = "project?onlyRoot=true"
                  /\ reads[b].at < i
                  /\ \E a \in 1 .. (b - 1) :
                         reads[a].step = "get_team_api_keys"
    /\ \A b \in DOMAIN reads :
           reads[b].step = "manage_group_mappings"
           => \A i \in DOMAIN log : Rank(log[i]) < 4 => i <= reads[b].at
    /\ \A i \in DOMAIN log :
           IF params.state = "present"
           THEN Rank(log[i]) < 4 => log[i].m = "PUT"
           ELSE Rank(log[i]) < 4 /\ log[i].m = "DELETE"

\* a present pass has ended that created a group, a team and a project and
\* then granted a permission and made an ACL entry
C15_Witness ==
    /\ pass.pc = "done"
    /\ params.state = "present"
    /\ \E i, j, k, l, m \in DOMAIN log :
           /\ i < j /\ j < k /\ k < l /\ l < m
           /\ log[i].path = "oidc/group" /\ log[i].status = 201
           /\ log[j].path = "team" /\ log[j].status = 201
           /\ log[k].path = "project" /\ log[k].status = 201
           /\ log[l].path = "permission" /\ log[l].status = 200
           /\ log[m].path = "acl/mapping" /\ log[m].m = "PUT"
           /\ log[m].status = 200

(***************************************************************************)
(* C16: tree completeness.  When every read call is answered, the tree     *)
(* get_project_tree returns holds, at every position, exactly the projects *)
(* the server holds under the project of that position, each with its      *)
(* uuid: every project of every depth is in the tree under its parent and  *)
(* the tree has no other node.  flatten_project_tree of the tree maps      *)
(* every project name of the server to the uuid of a project of that name  *)
(* (the project, when names are unique), and create_projects, which builds *)
(* and flattens the tree, issues the read calls of get_project_tree and no *)
(* other: the root listing, then GET calls of the server's projects, each  *)
(* project at least once.                                                  *)
(***************************************************************************)
RECURSIVE TreeIs(_, _, _)
TreeIs(r, project_tree, parent) ==
    /\ DOMAIN project_tree = {r.projects[p].name : p \in ChildrenOf(r, parent)}
    /\ \A p \in ChildrenOf(r, parent) :
           LET node == project_tree[r.projects[p].name]
           IN  /\ node[DICT_KEY_ID] = p
               /\ TreeIs(r, Children(node), p)

ReadsOf(step) ==
    LET own == SelectSeq(reads, LAMBDA read : read.step = step)
    IN  IF own = << >> THEN << >>
        ELSE [i \in DOMAIN own[1].lists |-> Get(own[1].lists[i], NoId)]
             \o [i \in DOMAIN own[1].projects |->
                    Get("project", own[1].projects[i])]

C16_TreeComplete ==
    /\ (pass.ret = "get_project_tree" /\ AllAnswered)
       => LET flat == flatten_project_tree(pass.existing_project_tree)
          IN  /\ TreeIs(remote, pass.existing_project_tree, NoId)
              /\ DOMAIN flat = {remote.projects[p].name : p \in DOMAIN remote.projects}
              /\ \A n \in DOMAIN flat : flat[n] \in NamedIds(remote, n)
              /\ UniqueNames(remote)
                 => \A p \in DOMAIN remote.projects :
                        flat[remote.projects[p].name] = p
    /\ (pass.ret = "create_projects" /\ AllAnswered)
       => LET gets == ReadsOf("create_projects")
          IN  /\ gets = ProjectTreeReads(pass.before)
              /\ gets[1] = Get("project?onlyRoot=true", NoId)
              /\ \A i \in 2 .. Len(gets) :
                     /\ gets[i].path = "project"
                     /\ gets[i].id \in DOMAIN pass.before.projects
              /\ \A p \in DOMAIN pass.before.projects :
                     \E i \in DOMAIN gets : gets[i] = Get("project", p)

\* the tree of a chain of three projects was read: the third is found only
\* by the descent
C16_Witness ==
    /\ pass.ret = "get_project_tree"
    /\ AllAnswered
    /\ \E p, q \in DOMAIN remote.projects :
           /\ remote.projects[p].parent = q
           /\ remote.projects[q].parent # NoId
           /\ LET top == remote.projects[remote.projects[q].parent].name
                   mid == remote.projects[q].name
                   low == remote.projects[p].name
               IN  /\ top \in DOMAIN pass.existing_project_tree
                   /\ pass.existing_project_tree[top][DICT_KEY_CHILDREN][mid]
                          [DICT_KEY_CHILDREN][low][DICT_KEY_ID] = p

(***************************************************************************)
(* C17: tree build termination.  Over every forest of the server (finite   *)
(* and acyclic), add_children_to_project_tree, run call by call from a     *)
(* seed tree, returns: every call in progress ends, and it ends with the   *)
(* tree the builder computes, after GET calls for nodes with an id only.   *)
(* A node without an id is passed over and stays as it is.                 *)
(***************************************************************************)
Built ==
    /\ build.pc = "built"
    /\ build.stack = << >>
    /\ build.tree = add_children_to_project_tree(remote, build.seed)
    /\ build.gets = AddChildrenReads(remote, build.seed)
    /\ \A i \in DOMAIN build.gets : build.gets[i].id \in DOMAIN remote.projects
    /\ \A n \in DOMAIN build.seed :
           build.seed[n][DICT_KEY_ID] = NoId
           => /\ build.tree[n][DICT_KEY_ID] = NoId
              /\ TreeIs(remote, build.tree[n][DICT_KEY_CHILDREN], NoId)

C17_BuildTerminates == <>Built

\* the build from a seed under a node without an id has returned, over a
\* chain of three projects
C17_Witness ==
    /\ build.pc = "built"
    /\ \E n \in DOMAIN build.seed : build.seed[n][DICT_KEY_ID] = NoId
    /\ \E p, q \in DOMAIN remote.projects :
           /\ remote.projects[p].parent = q
           /\ remote.projects[q].parent # NoId
    /\ Len(build.gets) >= MaxProjects

IsCreate(i, path) == log[i].m = "PUT" /\ log[i].path = path

\* the tree the routine step read has no node of name n
MissedBy(step, n) == \A p \in NamedIds(pass.before, n) : Missed(step, p)

DistinctNames(projects) ==
    \A i, j \in DOMAIN projects : projects[i].name = projects[j].name => i = j

CallsFor(n) == {k \in Segment : log[k].name = n}

\* name n is in the observed map when the loop is at entry i
InMapAt(i, n) ==
    \/ n \in ObservedProjects
    \/ \E j \in 1 .. (i - 1) :
           /\ params.projects[j].name = n
           /\ \E k \in CallsFor(n) : log[k].status = 201

C19_ParentAware ==
    (/\ pass.ret = "create_projects"
     /\ AllAnswered
     /\ DistinctNames(params.projects))
    => /\ \A i \in DOMAIN params.projects :
              LET project == params.projects[i]
              IN  /\ Cardinality(CallsFor(project.name)) <= 1
                  /\ CallsFor(project.name) # {}
                     <=> /\ ~InMapAt(i, project.name)
                         /\ \/ project.parent = None
                            \/ InMapAt(i, project.parent)
                  /\ \A k \in CallsFor(project.name) :
                         IF project.parent = None THEN log[k].id = NoId
                         ELSE log[k].id \in NamedIds(remote, project.parent)
       /\ \A k, l \in Segment :
              k < l => \E i, j \in DOMAIN params.projects :
                           /\ i < j
                           /\ params.projects[i].name = log[k].name
                           /\ params.projects[j].name = log[l].name

\* a project listed before its parent, which the server did not hold: the
\* parent was created, the project was passed over and is still missing
C19_Witness ==
    /\ pass.ret = "create_projects"
    /\ AllAnswered
    /\ DistinctNames(params.projects)
    /\ \E i, j \in DOMAIN params.projects :
           /\ i < j
           /\ params.projects[i].parent = params.projects[j].name
           /\ \E k \in CallsFor(params.projects[j].name) : log[k].status = 201
           /\ CallsFor(params.projects[i].name) = {}
           /\ NamedIds(remote, params.projects[i].name) = {}

(***************************************************************************)
(* C20: team-creation race.  Every create call a run of create_teams       *)
(* issues is for a desired team whose name the run's own listing did not   *)
(* show, whatever the other run does in between; a run whose companion     *)
(* desires no team issues its create calls for names the server did not    *)
(* hold, and each is answered 201.  (That two runs both issue a create     *)
(* call for one name is the reachable state C20_Witness.)                  *)
(***************************************************************************)
C20_PointInTimeGuard ==
    racers.pc = "racing"
    => \A p \in Passes :
           /\ \A k \in DOMAIN Run(p).calls :
                  /\ Run(p).calls[k].name \notin Run(p).listed
                  /\ \E i \in 1 .. (Run(p).i - 1) :
                         Run(p).teams[i].name = Run(p).calls[k].name
           /\ (\A q \in Passes \ {p} : Run(q).teams = << >>)
              => \A k \in DOMAIN Run(p).calls :
                     /\ Run(p).calls[k].name \notin DOMAIN racers.before.teams
                     /\ Run(p).calls[k].status = 201

\* both runs listed the teams before either created, and both have issued a
\* create call for the same team, which the server did not hold
C20_Witness ==
    /\ racers.pc = "racing"
    /\ \E n \in {"T1", "T2"} :
           /\ n \notin DOMAIN racers.before.teams
           /\ \A p \in Passes :
                  /\ n \notin Run(p).listed
                  /\ \E k \in DOMAIN Run(p).calls : Run(p).calls[k].name = n
           /\ \E k \in DOMAIN Run(1).calls :
                  Run(1).calls[k].name = n /\ Run(1).calls[k].status = 201
           /\ \E k \in DOMAIN Run(2).calls :
                  Run(2).calls[k].name = n /\ Run(2).calls[k].status # 201

(***************************************************************************)
(* C21: ACL activation precedes ACL mutation.  In a pass on the present    *)
(* path every project-ACL create or delete call comes after a call that    *)
(* sets acl.enabled: the call right before the ACL calls of a team is the  *)
(* toggle of that team's turn.  activate_portfolio_access_control issues   *)
(* exactly one call, the POST of acl.enabled, whether the server had the   *)
(* property set or not, so a pass that ends has issued one toggle per      *)
(* desired team.  The toggle's status is not counted: the routine returns  *)
(* whether the POST was answered 200, and neither manage_group_mappings'   *)
(* changed nor the changed of the pass is true unless a call other than    *)
(* the toggle was answered as a change.                                    *)
(***************************************************************************)
IsToggle(call) ==
    /\ call.m = "POST"
    /\ call.path = "configProperty"
    /\ call.name = "acl.enabled"

Toggles == {i \in DOMAIN log : IsToggle(log[i])}

C21_ActivationFirst ==
    /\ \A m \in DOMAIN log :
           log[m].path = "acl/mapping" => \E k \in Toggles : k < m
    /\ pass.ret = "manage_portfolio_access_control"
       => /\ pass.from > 1
          /\ IsToggle(log[pass.from - 1])
          /\ \A m \in Segment : log[m].path = "acl/mapping"
    /\ pass.ret = "activate_portfolio_access_control"
       => /\ Segment = {Len(log)}
          /\ IsToggle(log[Len(log)])
          /\ log[Len(log)].status = 200 <=> ~Refused(Len(log))
          /\ pass.ret_changed <=> log[Len(log)].status = 200
          /\ Cardinality(Toggles) = pass.ret_team
    /\ (/\ pass.pc = "done"
        /\ Entry(params) = "create_oidc_groups"
        /\ params.teams # << >>)
       => Cardinality(Toggles) = Len(params.teams)
    /\ pass.changed
       => \E i \in DOMAIN log : ~IsToggle(log[i]) /\ IsChange(log[i])
    /\ (pass.group_changed /\ Entry(params) = "create_oidc_groups")
       => \E i \in DOMAIN log :
              /\ log[i].path \in {"oidc/mapping", "permission", "acl/mapping"}
              /\ IsChange(log[i])

\* the toggle of the second team's turn was issued and answered 200 although
\* the first turn's toggle had set the property, and it returned true; the
\* first team's ACL calls lie between the two toggles, and nothing has been
\* counted as a change
C21_Witness ==
    /\ pass.ret = "activate_portfolio_access_control"
    /\ pass.ret_team = 2
    /\ remote.aclEnabled
    /\ log[Len(log)].status = 200
    /\ pass.ret_changed
    /\ \E k \in Toggles :
           /\ log[k].status = 200
           /\ \E m \in DOMAIN log :
                  /\ k < m
                  /\ m < Len(log)
                  /\ log[m].path = "acl/mapping"
    /\ ~pass.changed
    /\ ~pass.group_changed

(***************************************************************************)
(* C22: path separation.  A pass with state=present issues no delete call  *)
(* for an OIDC group, a team or a project, and makes no call of a delete   *)
(* routine: the groups, teams and projects the server held when the pass   *)
(* began are all still there, under their uuids.  A pass with state=absent *)
(* issues delete calls for groups, teams and projects and no other call    *)
(* (no create, permission, group-mapping, ACL or acl.enabled call), makes  *)
(* no call of a routine of the present path, and returns no api_keys: the  *)
(* server gains no group, team, project, mapping, permission or ACL entry  *)
(* and acl.enabled stays as it was.                                        *)
(***************************************************************************)
Entities == {"oidc/group", "team", "project"}

PresentSteps ==
    {"create_oidc_groups", "create_teams", "create_projects",
     "get_team_api_keys", "manage_group_mappings", "get_project_tree",
     "manage_oidc_groups", "manage_permissions",
     "activate_portfolio_access_control", "manage_portfolio_access_control"}

AbsentSteps == {"delete_oidc_groups", "delete_teams", "delete_projects"}

Keeps(old, new) ==
    /\ DOMAIN old \subseteq DOMAIN new
    /\ \A n \in DOMAIN old : new[n] = old[n]

C22_PathSeparation ==
    /\ params.state = "present"
       => /\ \A i \in DOMAIN log :
                 ~(log[i].m = "DELETE" /\ log[i].path \in Entities)
          /\ pass.pc \notin AbsentSteps
          /\ pass.ret \notin AbsentSteps
          /\ \A b \in DOMAIN reads : reads[b].step \in PresentSteps
          /\ Keeps(pass.before.groups, remote.groups)
          /\ Keeps(pass.before.teams, remote.teams)
          /\ Keeps(pass.before.projects, remote.projects)
    /\ params.state = "absent"
       => /\ \A i \in DOMAIN log :
                 /\ log[i].m = "DELETE"
                 /\ log[i].path \in Entities
          /\ pass.pc \notin PresentSteps
          /\ pass.ret \notin PresentSteps
          /\ \A b \in DOMAIN reads : reads[b].step \in AbsentSteps \cup {"start"}
          /\ ~pass.has_api_keys
          /\ pass.api_keys = EmptyDict
          /\ Keeps(remote.groups, pass.before.groups)
          /\ Keeps(remote.teams, pass.before.teams)
          /\ Keeps(remote.projects, pass.before.projects)
          /\ remote.mappings \subseteq pass.before.mappings
          /\ remote.perms \subseteq pass.before.perms
          /\ remote.acl \subseteq pass.before.acl
          /\ remote.aclEnabled = pass.before.aclEnabled
          /\ remote.nextId = pass.before.nextId

\* a present pass has ended over a server that held a project the
\* parameters do not name: it deleted a group mapping or an ACL entry and
\* created a group, a team or a project, so the server holds more than before
C22_Witness ==
    /\ pass.pc = "done"
    /\ params.state = "present"
    /\ \E i \in DOMAIN log : log[i].m = "DELETE" /\ log[i].status = 200
    /\ \E i \in DOMAIN log :
           /\ log[i].m = "PUT"
           /\ log[i].status = 201
           /\ log[i].path \in Entities
    /\ \E p \in DOMAIN pass.before.projects :
           \A j \in DOMAIN params.projects :
               params.projects[j].name # pass.before.projects[p].name
    /\ \/ DOMAIN pass.before.groups # DOMAIN remote.groups
       \/ DOMAIN pass.before.teams # DOMAIN remote.teams
       \/ DOMAIN pass.before.projects # DOMAIN remote.projects

\* an absent pass has ended that deleted a group, a team and a project, and
\* the server still holds a project
C22_AbsentReached ==
    /\ pass.pc = "done"
    /\ params.state = "absent"
    /\ \A path \in Entities :
           \E i \in DOMAIN log : log[i].path = path /\ log[i].status \in {200, 204}
    /\ DOMAIN remote.projects # {}
====
